---- MODULE Spec2Model ----
\* Stream lifecycle supervisor of stream-webpage-container (src/cmd/main.go):
\* the run loop of main, streamWebsite / startFFmpegStream, the locked
\* StreamState, the cron status checker and the shutdown signal handler.
EXTENDS Integers, Sequences, FiniteSets, TLC

\* Number of pipeline generations (streamCtx creations) the run loop may make.
MaxGen == 2

Threads == {"loop", "monitor", "signal"}
Gens == 1..MaxGen
NoGen == 0

VARIABLES
    isRunning,        \* StreamState.isRunning
    cancelFunc,       \* StreamState.cancelFunc: NoGen (nil) or the generation whose streamCancel it is
    chromeCancel,     \* StreamState.chromeCancel: NoGen (nil) or the generation whose chromeCancel it is
    ffmpegCmd,        \* StreamState.ffmpegCmd: NoGen (nil) or the generation whose exec.Cmd it is
    mu,               \* StreamState.mu: "free" or the thread holding the write lock
    pc,               \* position of each goroutine
    gen,              \* generations created so far; the loop's current streamCtx is generation gen
    err,              \* the run loop's err (result of streamWebsite)
    rootDone,         \* the root context (main's ctx) is cancelled
    streamCancelled,  \* generations whose streamCancel has been called
    chromeCancelled,  \* generations whose chromeCancel has been called
    chrome,           \* generations whose browser process is alive
    ffState,          \* per generation, the encoder process: none, alive, killed, failed, exited0
    client,           \* twitch client: "uninit" or "ready"
    credsSet,         \* TWITCH_CLIENT_ID and TWITCH_CLIENT_SECRET are both set
    crashed,          \* the process died of an unrecovered panic
    queryResult,      \* the cron func's resp/err of GetStreams: none, error, live, notlive
    stops,            \* history: per generation, the threads whose stopStream tore it down
    obs,              \* history: per thread, what its last stopStream found at its isRunning test
    env,              \* the environment variables the program reads
    tokenGranted,     \* whether the Twitch token endpoint grants an app access token
    config,           \* what loadConfig returned: NotYet or [config, err]
    ffmpeg,           \* what startFFmpegStream computed for its command: NotYet or a record
    once,             \* twitch.clientOnce and twitch.client
    caller,           \* per GetClient caller: its position and the client it was returned
    unset,            \* names of the variables that are absent from the environment
    health,           \* what the /health handler last answered
    bitrateArg,       \* the argument extractNumberFromBitrate is called with
    number            \* what extractNumberFromBitrate returned

state == <<isRunning, cancelFunc, chromeCancel, ffmpegCmd>>
procs == <<chrome, ffState>>
ctxs == <<rootDone, streamCancelled, chromeCancelled>>
twitch == <<client, credsSet, crashed, queryResult>>
hist == <<stops, obs>>
\* The state no step of the supervisor touches: that of the functions
\* modelled on their own (loadConfig, the encoder command of
\* startFFmpegStream, extractNumberFromBitrate, twitch.GetClient) and the
\* last answer of the HTTP server.
aux == <<env, tokenGranted, config, ffmpeg, once, caller, unset, health, bitrateArg, number>>
\* The state of the stream supervisor.
supervisor == <<isRunning, cancelFunc, chromeCancel, ffmpegCmd, mu, pc, gen, err, rootDone,
                streamCancelled, chromeCancelled, chrome, ffState, client, credsSet, crashed,
                queryResult, stops, obs>>
vars == <<isRunning, cancelFunc, chromeCancel, ffmpegCmd, mu, pc, gen, err, rootDone,
          streamCancelled, chromeCancelled, chrome, ffState, client, credsSet, crashed,
          queryResult, stops, obs, env, tokenGranted, config, ffmpeg, once, caller,
          unset, health, bitrateArg, number>>

\* ---------------------------------------------------------------- contexts

\* streamCtx of generation g is derived from the root context (main.go:305).
StreamDone(g) == rootDone \/ g \in streamCancelled

\* chromeCtx is derived from allocCtx, itself derived from streamCtx (main.go:330-333).
ChromeDone(g) == StreamDone(g) \/ g \in chromeCancelled

AliveFf == {g \in Gens : ffState[g] = "alive"}

\* ---------------------------------------------------------------- lifecycle phases

StopPcs == {"stop_enter", "stop_kill", "stop_chrome", "stop_cancel", "stop_clear"}
StartPcs == {"sw_check", "sw_settle", "sw_ctx", "sw_launch", "sw_nav",
             "ff_start", "ff_set"}

\* The loop's place in the lifecycle, as seen by a stopStream of another thread.
LoopPhase ==
    IF pc["loop"] \in StartPcs THEN "starting"
    ELSE IF pc["loop"] \in {"ff_wait", "ff_ctxcheck", "ff_cleanup"} THEN "running"
    ELSE "idle"

\* ---------------------------------------------------------------- strings

\* A string the program works on character by character is a sequence of
\* one-character strings; the empty string is << >>.
Digits == <<"0", "1", "2", "3", "4", "5", "6", "7", "8", "9">>
UpperCase == <<"A", "B", "C", "D", "E", "F", "G", "H", "I", "J", "K", "L", "M",
               "N", "O", "P", "Q", "R", "S", "T", "U", "V", "W", "X", "Y", "Z">>
LowerCase == <<"a", "b", "c", "d", "e", "f", "g", "h", "i", "j", "k", "l", "m",
               "n", "o", "p", "q", "r", "s", "t", "u", "v", "w", "x", "y", "z">>

IsDigit(c) == \E i \in DOMAIN Digits : Digits[i] = c
DigitVal(c) == (CHOOSE i \in DOMAIN Digits : Digits[i] = c) - 1

\* strings.ToLower
ToLower(s) ==
    [i \in 1..Len(s) |->
        IF \E k \in DOMAIN UpperCase : UpperCase[k] = s[i]
          THEN LowerCase[CHOOSE k \in DOMAIN UpperCase : UpperCase[k] = s[i]]
          ELSE s[i]]

\* strings.TrimSuffix
TrimSuffix(s, suffix) ==
    IF Len(s) >= Len(suffix) /\ SubSeq(s, Len(s) - Len(suffix) + 1, Len(s)) = suffix
      THEN SubSeq(s, 1, Len(s) - Len(suffix))
      ELSE s

RECURSIVE DigitsValue(_)
DigitsValue(s) ==
    IF s = << >> THEN 0
    ELSE 10 * DigitsValue(SubSeq(s, 1, Len(s) - 1)) + DigitVal(s[Len(s)])

\* The digits of the largest int, 1<<63 - 1, and of the magnitude of the
\* smallest, 1<<63 (int has 64 bits on the platforms the image is built for).
MaxIntDigits == <<"9", "2", "2", "3", "3", "7", "2", "0", "3", "6", "8", "5", "4", "7", "7", "5", "8", "0", "7">>
MinIntDigits == <<"9", "2", "2", "3", "3", "7", "2", "0", "3", "6", "8", "5", "4", "7", "7", "5", "8", "0", "8">>

RECURSIVE StripZeros(_)
StripZeros(s) == IF s # << >> /\ s[1] = "0" THEN StripZeros(Tail(s)) ELSE s

\* a > b, for digit strings of the same length
DigitsGreater(a, b) ==
    \E i \in 1..Len(a) :
        /\ \A j \in 1..(i - 1) : a[j] = b[j]
        /\ DigitVal(a[i]) > DigitVal(b[i])

\* The value of the digits does not fit an int (strconv.ErrRange).
OutOfRange(body, negative) ==
    \/ Len(StripZeros(body)) > Len(MaxIntDigits)
    \/ /\ Len(StripZeros(body)) = Len(MaxIntDigits)
       /\ DigitsGreater(StripZeros(body),
                        IF negative THEN MinIntDigits ELSE MaxIntDigits)

\* strconv.Atoi: an optional sign, then decimal digits only, at least one,
\* whose value fits an int.
Atoi(s) ==
    LET signed == s # << >> /\ s[1] \in {"+", "-"}
        body == IF signed THEN Tail(s) ELSE s
    IN  IF body = << >> \/ \E i \in 1..Len(body) : ~IsDigit(body[i])
          THEN [num |-> 0, err |-> TRUE]
        ELSE IF OutOfRange(body, signed /\ s[1] = "-")
          THEN [num |-> 0, err |-> TRUE]
          ELSE [num |-> IF signed /\ s[1] = "-" THEN 0 - DigitsValue(body)
                        ELSE DigitsValue(body),
                err |-> FALSE]

RECURSIVE FormatNat(_)
FormatNat(n) ==
    IF n < 10 THEN <<Digits[n + 1]>>
    ELSE FormatNat(n \div 10) \o <<Digits[(n % 10) + 1]>>

\* fmt.Sprintf("%d", n)
FormatInt(n) == IF n < 0 THEN <<"-">> \o FormatNat(0 - n) ELSE FormatNat(n)

\* ---------------------------------------------------------------- configuration

DefaultResolution == <<"7", "2", "0", "p">>
DefaultFramerate == <<"3", "0">>
DefaultRTMPURL == <<"r", "t", "m", "p", ":", "/", "/", "l", "o", "c", "a", "l", "h", "o", "s", "t", ":", "1", "9", "3", "5", "/", "l", "i", "v", "e", "/", "s", "t", "r", "e", "a", "m">>
DefaultWebsiteURL == <<"h", "t", "t", "p", "s", ":", "/", "/", "g", "o", "o", "g", "l", "e", ".", "c", "o", "m">>

\* Faulty variant: the value of the variable is returned even when it is empty.
GetEnvOrDefaultKeepsEmpty(value, defaultValue) == value

\* utils.GetEnvOrDefault: value is os.Getenv(key), the empty string for a
\* variable that is absent.
GetEnvOrDefault(value, defaultValue) ==
    IF value # << >> THEN value ELSE defaultValue

\* Faulty variant: the framerate is not validated.
loadFramerateUnchecked(framerate) == framerate

\* loadConfig's framerate switch: "30" and "60" are kept, anything else is "30".
loadFramerate(framerate) ==
    IF framerate \in {<<"3", "0">>, <<"6", "0">>} THEN framerate ELSE <<"3", "0">>

\* Faulty variant: the resolution is compared as it was written.
loadResolutionCaseSensitive(resolution) ==
    CASE resolution = <<"7", "2", "0", "p">> ->
            [Resolution |-> resolution, Width |-> 1280, Height |-> 720]
      [] resolution = <<"1", "0", "8", "0", "p">> ->
            [Resolution |-> resolution, Width |-> 1920, Height |-> 1080]
      [] resolution = <<"2", "k">> ->
            [Resolution |-> resolution, Width |-> 2560, Height |-> 1440]
      [] OTHER ->
            [Resolution |-> <<"7", "2", "0", "p">>, Width |-> 1280, Height |-> 720]

\* Faulty variant: an unsupported resolution keeps its name and gets no dimensions.
loadResolutionNoDefault(resolution) ==
    CASE ToLower(resolution) = <<"7", "2", "0", "p">> ->
            [Resolution |-> resolution, Width |-> 1280, Height |-> 720]
      [] ToLower(resolution) = <<"1", "0", "8", "0", "p">> ->
            [Resolution |-> resolution, Width |-> 1920, Height |-> 1080]
      [] ToLower(resolution) = <<"2", "k">> ->
            [Resolution |-> resolution, Width |-> 2560, Height |-> 1440]
      [] OTHER ->
            [Resolution |-> resolution, Width |-> 0, Height |-> 0]

\* loadConfig's resolution switch, on strings.ToLower(config.Resolution); only
\* the default branch rewrites config.Resolution.
loadResolution(resolution) ==
    CASE ToLower(resolution) = <<"7", "2", "0", "p">> ->
            [Resolution |-> resolution, Width |-> 1280, Height |-> 720]
      [] ToLower(resolution) = <<"1", "0", "8", "0", "p">> ->
            [Resolution |-> resolution, Width |-> 1920, Height |-> 1080]
      [] ToLower(resolution) = <<"2", "k">> ->
            [Resolution |-> resolution, Width |-> 2560, Height |-> 1440]
      [] OTHER ->
            [Resolution |-> <<"7", "2", "0", "p">>, Width |-> 1280, Height |-> 720]

\* loadConfig: the Config it returns and its error, which is always nil.
loadConfig(e) ==
    LET res == loadResolution(GetEnvOrDefault(e.RESOLUTION, DefaultResolution))
    IN  [config |-> [WebsiteURL |-> GetEnvOrDefault(e.WEBSITE_URL, DefaultWebsiteURL),
                     RTMPURL |-> GetEnvOrDefault(e.RTMP_URL, DefaultRTMPURL),
                     Resolution |-> res.Resolution,
                     Framerate |-> loadFramerate(GetEnvOrDefault(e.FRAMERATE, DefaultFramerate)),
                     Width |-> res.Width,
                     Height |-> res.Height],
         err |-> "nil"]

\* getDisplayInfo: $DISPLAY, or ":0" when it is empty.
getDisplayInfo(e) == IF e.DISPLAY = << >> THEN <<":", "0">> ELSE e.DISPLAY

\* ---------------------------------------------------------------- encoder command

\* framerateInt, err := strconv.Atoi(framerate); on an error framerateInt = 30.
framerateInt(cfg) ==
    IF Atoi(cfg.Framerate).err THEN 30 ELSE Atoi(cfg.Framerate).num

\* Faulty variant: the GOP size is the framerate itself (one second).
keyframeIntervalOneSecond(cfg) == FormatInt(framerateInt(cfg))

\* keyframeInterval := fmt.Sprintf("%d", framerateInt*2)
keyframeInterval(cfg) == FormatInt(framerateInt(cfg) * 2)

\* The bitrate switch of startFFmpegStream, on strings.ToLower(config.Resolution).
videoBitrate(cfg) ==
    CASE ToLower(cfg.Resolution) = <<"7", "2", "0", "p">> ->
            IF framerateInt(cfg) >= 60 THEN <<"4", "0", "0", "0", "k">> ELSE <<"3", "0", "0", "0", "k">>
      [] ToLower(cfg.Resolution) = <<"1", "0", "8", "0", "p">> ->
            IF framerateInt(cfg) >= 60 THEN <<"6", "0", "0", "0", "k">> ELSE <<"4", "5", "0", "0", "k">>
      [] ToLower(cfg.Resolution) = <<"2", "k">> ->
            IF framerateInt(cfg) >= 60 THEN <<"8", "5", "0", "0", "k">> ELSE <<"6", "0", "0", "0", "k">>
      [] OTHER -> <<"3", "0", "0", "0", "k">>

\* audioBitrate := "160k"
audioBitrate == <<"1", "6", "0", "k">>

\* Faulty variant: the fallback is 0.
extractNumberFromBitrateZeroFallback(bitrate) ==
    IF Atoi(TrimSuffix(bitrate, <<"k">>)).err THEN 0
    ELSE Atoi(TrimSuffix(bitrate, <<"k">>)).num

\* Faulty variant: the suffix is not removed before the conversion, which
\* then fails and yields the fallback.
extractNumberFromBitrateKeepsSuffix(bitrate) ==
    IF Atoi(bitrate).err THEN 3000 ELSE Atoi(bitrate).num

\* extractNumberFromBitrate: TrimSuffix "k", Atoi, 3000 on an error.
extractNumberFromBitrate(bitrate) ==
    IF Atoi(TrimSuffix(bitrate, <<"k">>)).err THEN 3000
    ELSE Atoi(TrimSuffix(bitrate, <<"k">>)).num

\* bufferSize := fmt.Sprintf("%dk", extractNumberFromBitrate(videoBitrate) * 2)
bufferSize(bitrate) == FormatInt(extractNumberFromBitrate(bitrate) * 2) \o <<"k">>

\* An argument of the command: a literal of the source, or a computed string.
Lit(s) == [lit |-> s]
Str(s) == [str |-> s]

\* args := []string{...} of startFFmpegStream
ffmpegArgs(cfg, display) ==
    << Lit("-f"), Lit("x11grab"),
       Lit("-video_size"), Str(FormatInt(cfg.Width) \o <<"x">> \o FormatInt(cfg.Height)),
       Lit("-framerate"), Str(cfg.Framerate),
       Lit("-i"), Str(display \o <<"+", "0", ",", "0">>),
       Lit("-f"), Lit("alsa"),
       Lit("-i"), Lit("default"),
       Lit("-vf"), Lit("crop=in_w:in_h:0:0"),
       Lit("-c:v"), Lit("libx264"),
       Lit("-preset"), Lit("veryfast"),
       Lit("-tune"), Lit("zerolatency"),
       Lit("-crf"), Lit("23"),
       Lit("-maxrate"), Str(videoBitrate(cfg)),
       Lit("-bufsize"), Str(bufferSize(videoBitrate(cfg))),
       Lit("-pix_fmt"), Lit("yuv420p"),
       Lit("-g"), Str(keyframeInterval(cfg)),
       Lit("-c:a"), Lit("aac"),
       Lit("-b:a"), Str(audioBitrate),
       Lit("-ar"), Lit("44100"),
       Lit("-f"), Lit("flv"),
       Str(cfg.RTMPURL) >>

\* ---------------------------------------------------------------- twitch client

\* Faulty variant: only the client ID is required.
initializeClientSecretOptional(e, granted) ==
    IF e.TWITCH_CLIENT_ID = ""
      THEN [client |-> FALSE, err |-> "credentials"]
    ELSE IF ~granted
      THEN [client |-> FALSE, err |-> "token"]
    ELSE [client |-> TRUE, err |-> "nil"]

\* initializeClient: whether it returns a client (non-nil) and its error.
\* helix.NewClientWithContext is given a client ID, RequestAppAccessToken
\* succeeds or returns an error.
initializeClient(e, granted) ==
    IF e.TWITCH_CLIENT_ID = "" \/ e.TWITCH_CLIENT_SECRET = ""
      THEN [client |-> FALSE, err |-> "credentials"]
    ELSE IF ~granted
      THEN [client |-> FALSE, err |-> "token"]
    ELSE [client |-> TRUE, err |-> "nil"]

\* ---------------------------------------------------------------- initial state

NoObs == [gen |-> NoGen, phase |-> "none", ran |-> FALSE]

\* Goroutines that call twitch.GetClient (runs of the cron func may overlap).
NCallers == 2
Callers == 1..NCallers

\* What os.Getenv returns per variable (the empty string for a variable that
\* is absent): no variable is set, but for the Twitch credentials.
EnvWith(id, secret) ==
    [WEBSITE_URL |-> << >>, WEBPAGE_URL |-> << >>, RTMP_URL |-> << >>,
     RESOLUTION |-> << >>, FRAMERATE |-> << >>, DISPLAY |-> << >>,
     TWITCH_CLIENT_ID |-> id, TWITCH_CLIENT_SECRET |-> secret]

\* The variables of the configuration.
ConfigKeys == {"WEBSITE_URL", "WEBPAGE_URL", "RTMP_URL", "RESOLUTION", "FRAMERATE", "DISPLAY"}

\* No request to /health has been answered.
NoResponse == [answered |-> FALSE, status |-> 0, message |-> ""]

\* extractNumberFromBitrate has not been called.
NoNumber == [returned |-> FALSE, n |-> 0]

\* var config *Config before loadConfig has returned (a zero Config).
NoConfig ==
    [loaded |-> FALSE,
     config |-> [WebsiteURL |-> << >>, RTMPURL |-> << >>, Resolution |-> << >>,
                 Framerate |-> << >>, Width |-> 0, Height |-> 0],
     err |-> "nil"]

\* startFFmpegStream has not been called.
NoCommand ==
    [built |-> FALSE, keyframeInterval |-> << >>, videoBitrate |-> << >>,
     audioBitrate |-> << >>, bufferSize |-> << >>, args |-> << >>]

\* var client *helix.Client (nil: 0) and var clientOnce sync.Once, unused.
NoOnce == [done |-> FALSE, m |-> 0, inits |-> 0, client |-> 0,
           panicking |-> FALSE, dead |-> FALSE]

NoCalls == [c \in Callers |-> [pc |-> "idle", rets |-> {}]]

\* Faulty variant: the global state is created with isRunning set.
InitAlreadyRunning ==
    /\ isRunning = TRUE
    /\ cancelFunc = NoGen
    /\ chromeCancel = NoGen
    /\ ffmpegCmd = NoGen
    /\ mu = "free"
    /\ pc = [t \in Threads |->
                CASE t = "loop" -> "select"
                  [] t = "monitor" -> "mon_idle"
                  [] t = "signal" -> "sig_wait"]
    /\ gen = 0
    /\ err = "nil"
    /\ rootDone = FALSE
    /\ streamCancelled = {}
    /\ chromeCancelled = {}
    /\ chrome = {}
    /\ ffState = [g \in Gens |-> "none"]
    /\ client = "uninit"
    /\ credsSet \in BOOLEAN
    /\ crashed = FALSE
    /\ queryResult = "none"
    /\ stops = [g \in Gens |-> <<>>]
    /\ obs = [t \in Threads |-> NoObs]
    /\ env = IF credsSet THEN EnvWith("id", "secret") ELSE EnvWith("", "")
    /\ tokenGranted = TRUE
    /\ config = [loaded |-> TRUE, config |-> loadConfig(env).config,
                 err |-> loadConfig(env).err]
    /\ ffmpeg = NoCommand
    /\ once = NoOnce
    /\ caller = NoCalls
    /\ unset = ConfigKeys
    /\ health = NoResponse
    /\ bitrateArg = << >>
    /\ number = NoNumber

\* globalStreamState = &StreamState{} ; main has not yet entered its loop.
Init ==
    /\ isRunning = FALSE
    /\ cancelFunc = NoGen
    /\ chromeCancel = NoGen
    /\ ffmpegCmd = NoGen
    /\ mu = "free"
    /\ pc = [t \in Threads |->
                CASE t = "loop" -> "select"
                  [] t = "monitor" -> "mon_idle"
                  [] t = "signal" -> "sig_wait"]
    /\ gen = 0
    /\ err = "nil"
    /\ rootDone = FALSE
    /\ streamCancelled = {}
    /\ chromeCancelled = {}
    /\ chrome = {}
    /\ ffState = [g \in Gens |-> "none"]
    /\ client = "uninit"
    /\ credsSet \in BOOLEAN
    /\ crashed = FALSE
    /\ queryResult = "none"
    /\ stops = [g \in Gens |-> <<>>]
    /\ obs = [t \in Threads |-> NoObs]
    /\ env = IF credsSet THEN EnvWith("id", "secret") ELSE EnvWith("", "")
    /\ tokenGranted = TRUE
    /\ config = [loaded |-> TRUE, config |-> loadConfig(env).config,
                 err |-> loadConfig(env).err]
    /\ ffmpeg = NoCommand
    /\ once = NoOnce
    /\ caller = NoCalls
    /\ unset = ConfigKeys
    /\ health = NoResponse
    /\ bitrateArg = << >>
    /\ number = NoNumber

Goto(t, p) == pc' = [pc EXCEPT ![t] = p]

\* The process runs until main returns or a panic kills it.
ProcessLive == ~crashed /\ pc["loop"] # "exited"

\* ---------------------------------------------------------------- StreamState.stopStream

\* Where stopStream returns to, per caller: streamWebsite (main.go:301),
\* RestartStream's caller (main.go:533), the signal handler (main.go:200).
RetOf(t) ==
    CASE t = "loop" -> "sw_settle"
      [] t = "monitor" -> "mon_ret"
      [] t = "signal" -> "sig_http"

Did(t, op) == [by |-> t, op |-> op]

\* Faulty variant: stopStream tests isRunning without taking the lock.
StopEnterNoLock(t) ==
    /\ ProcessLive
    /\ pc[t] = "stop_enter"
    /\ obs' = [obs EXCEPT ![t] = [gen |-> gen, phase |-> LoopPhase, ran |-> isRunning]]
    /\ IF isRunning
         THEN Goto(t, "stop_kill")
         ELSE Goto(t, RetOf(t))
    /\ UNCHANGED <<state, mu, gen, err, ctxs, procs, twitch, stops, aux>>

\* Faulty variant: stopStream runs its teardown without testing isRunning.
StopEnterNoGuard(t) ==
    /\ ProcessLive
    /\ pc[t] = "stop_enter"
    /\ mu = "free"
    /\ obs' = [obs EXCEPT ![t] = [gen |-> gen, phase |-> LoopPhase, ran |-> isRunning]]
    /\ mu' = t
    /\ Goto(t, "stop_kill")
    /\ UNCHANGED <<state, gen, err, ctxs, procs, twitch, stops, aux>>

\* s.mu.Lock(); if !s.isRunning { return } (with the deferred Unlock).
StopEnter(t) ==
    /\ ProcessLive
    /\ pc[t] = "stop_enter"
    /\ mu = "free"
    /\ obs' = [obs EXCEPT ![t] = [gen |-> gen, phase |-> LoopPhase, ran |-> isRunning]]
    /\ IF isRunning
         THEN mu' = t /\ Goto(t, "stop_kill")
         ELSE mu' = mu /\ Goto(t, RetOf(t))
    /\ UNCHANGED <<state, gen, err, ctxs, procs, twitch, stops, aux>>

\* Faulty variant: stopStream gives up when it cannot kill the encoder.
StopKillAbortsOnFailure(t) ==
    /\ ProcessLive
    /\ pc[t] = "stop_kill"
    /\ mu = t
    /\ IF ffmpegCmd # NoGen /\ ffState[ffmpegCmd] = "alive"
         THEN /\ ffState' = [ffState EXCEPT ![ffmpegCmd] = "killed"]
              /\ stops' = [stops EXCEPT ![ffmpegCmd] = Append(@, Did(t, "kill"))]
              /\ mu' = mu
              /\ Goto(t, "stop_chrome")
         ELSE /\ UNCHANGED <<ffState, stops>>
              /\ mu' = "free"
              /\ Goto(t, RetOf(t))
    /\ UNCHANGED <<state, gen, err, ctxs, chrome, twitch, obs, aux>>

\* if s.ffmpegCmd != nil && s.ffmpegCmd.Process != nil { s.ffmpegCmd.Process.Kill() }
\* Kill of a process that has already finished fails and is only logged; a
\* command that was never started has no Process.
StopKill(t) ==
    /\ ProcessLive
    /\ pc[t] = "stop_kill"
    /\ mu = t
    /\ IF ffmpegCmd # NoGen /\ ffState[ffmpegCmd] # "none"
         THEN /\ ffState' = [ffState EXCEPT ![ffmpegCmd] =
                                IF @ = "alive" THEN "killed" ELSE @]
              /\ stops' = [stops EXCEPT ![ffmpegCmd] = Append(@, Did(t, "kill"))]
         ELSE UNCHANGED <<ffState, stops>>
    /\ Goto(t, "stop_chrome")
    /\ UNCHANGED <<state, mu, gen, err, ctxs, chrome, twitch, obs, aux>>

\* if s.chromeCancel != nil { s.chromeCancel() }: chromedp's cancel closes the
\* browser of the context and waits for it.
StopChrome(t) ==
    /\ ProcessLive
    /\ pc[t] = "stop_chrome"
    /\ mu = t
    /\ IF chromeCancel # NoGen
         THEN /\ chromeCancelled' = chromeCancelled \cup {chromeCancel}
              /\ chrome' = chrome \ {chromeCancel}
              /\ stops' = [stops EXCEPT ![chromeCancel] = Append(@, Did(t, "chrome"))]
         ELSE UNCHANGED <<chromeCancelled, chrome, stops>>
    /\ Goto(t, "stop_cancel")
    /\ UNCHANGED <<state, mu, gen, err, rootDone, streamCancelled, ffState, twitch, obs, aux>>

\* Faulty variant: stopStream cancels the root context instead of the stream's.
StopCancelCancelsRoot(t) ==
    /\ ProcessLive
    /\ pc[t] = "stop_cancel"
    /\ mu = t
    /\ rootDone' = TRUE
    /\ IF cancelFunc # NoGen
         THEN stops' = [stops EXCEPT ![cancelFunc] = Append(@, Did(t, "cancel"))]
         ELSE stops' = stops
    /\ Goto(t, "stop_clear")
    /\ UNCHANGED <<state, mu, gen, err, streamCancelled, chromeCancelled, procs, twitch, obs, aux>>

\* if s.cancelFunc != nil { s.cancelFunc() }
StopCancel(t) ==
    /\ ProcessLive
    /\ pc[t] = "stop_cancel"
    /\ mu = t
    /\ IF cancelFunc # NoGen
         THEN /\ streamCancelled' = streamCancelled \cup {cancelFunc}
              /\ stops' = [stops EXCEPT ![cancelFunc] = Append(@, Did(t, "cancel"))]
         ELSE UNCHANGED <<streamCancelled, stops>>
    /\ Goto(t, "stop_clear")
    /\ UNCHANGED <<state, mu, gen, err, rootDone, chromeCancelled, procs, twitch, obs, aux>>

\* Faulty variant: stopStream leaves ffmpegCmd set.
StopClearKeepsCmd(t) ==
    /\ ProcessLive
    /\ pc[t] = "stop_clear"
    /\ mu = t
    /\ isRunning' = FALSE
    /\ cancelFunc' = NoGen
    /\ chromeCancel' = NoGen
    /\ ffmpegCmd' = ffmpegCmd
    /\ mu' = "free"
    /\ Goto(t, RetOf(t))
    /\ UNCHANGED <<gen, err, ctxs, procs, twitch, hist, aux>>

\* Faulty variant: stopStream clears the handles but leaves isRunning set.
StopClearKeepsRunning(t) ==
    /\ ProcessLive
    /\ pc[t] = "stop_clear"
    /\ mu = t
    /\ isRunning' = isRunning
    /\ cancelFunc' = NoGen
    /\ chromeCancel' = NoGen
    /\ ffmpegCmd' = NoGen
    /\ mu' = "free"
    /\ Goto(t, RetOf(t))
    /\ UNCHANGED <<gen, err, ctxs, procs, twitch, hist, aux>>

\* Faulty variant: stopStream resets isRunning but keeps the three handles.
StopClearKeepsHandles(t) ==
    /\ ProcessLive
    /\ pc[t] = "stop_clear"
    /\ mu = t
    /\ isRunning' = FALSE
    /\ UNCHANGED <<cancelFunc, chromeCancel, ffmpegCmd>>
    /\ mu' = "free"
    /\ Goto(t, RetOf(t))
    /\ UNCHANGED <<gen, err, ctxs, procs, twitch, hist, aux>>

\* Faulty variant: stopStream returns without clearing the state.
StopClearReleasesOnly(t) ==
    /\ ProcessLive
    /\ pc[t] = "stop_clear"
    /\ mu = t
    /\ mu' = "free"
    /\ Goto(t, RetOf(t))
    /\ UNCHANGED <<state, gen, err, ctxs, procs, twitch, hist, aux>>

\* s.isRunning = false; the three handles = nil; deferred Unlock; return.
StopClear(t) ==
    /\ ProcessLive
    /\ pc[t] = "stop_clear"
    /\ mu = t
    /\ isRunning' = FALSE
    /\ cancelFunc' = NoGen
    /\ chromeCancel' = NoGen
    /\ ffmpegCmd' = NoGen
    /\ mu' = "free"
    /\ Goto(t, RetOf(t))
    /\ UNCHANGED <<gen, err, ctxs, procs, twitch, hist, aux>>

\* ---------------------------------------------------------------- main's run loop

\* select { case <-ctx.Done(): return; default: streamWebsite(ctx, config) }
LoopSelect ==
    /\ ProcessLive
    /\ pc["loop"] = "select"
    /\ IF rootDone THEN Goto("loop", "exited") ELSE Goto("loop", "sw_check")
    /\ UNCHANGED <<state, mu, gen, err, ctxs, procs, twitch, hist, aux>>

\* Faulty variant: isStreamRunning resets the flag it reads.
StreamWebsiteCheckResetsFlag ==
    /\ ProcessLive
    /\ pc["loop"] = "sw_check"
    /\ mu = "free"
    /\ isRunning' = FALSE
    /\ IF isRunning THEN Goto("loop", "stop_enter") ELSE Goto("loop", "sw_ctx")
    /\ UNCHANGED <<cancelFunc, chromeCancel, ffmpegCmd, mu, gen, err, ctxs, procs, twitch, hist, aux>>

\* Faulty variant: streamWebsite does not stop a running stream first.
StreamWebsiteCheckNoStop ==
    /\ ProcessLive
    /\ pc["loop"] = "sw_check"
    /\ mu = "free"
    /\ Goto("loop", "sw_ctx")
    /\ UNCHANGED <<state, mu, gen, err, ctxs, procs, twitch, hist, aux>>

\* if globalStreamState.isStreamRunning() { stopStream(logger); time.Sleep(2s) }
\* isStreamRunning takes the read lock, so it waits for a writer.
StreamWebsiteCheck ==
    /\ ProcessLive
    /\ pc["loop"] = "sw_check"
    /\ mu = "free"
    /\ IF isRunning THEN Goto("loop", "stop_enter") ELSE Goto("loop", "sw_ctx")
    /\ UNCHANGED <<state, mu, gen, err, ctxs, procs, twitch, hist, aux>>

\* (after a stop: time.Sleep(2 * time.Second), then) streamCtx, allocCtx and
\* chromeCtx of a new generation are created.
StreamWebsiteNewCtx ==
    /\ ProcessLive
    /\ pc["loop"] \in {"sw_settle", "sw_ctx"}
    /\ gen < MaxGen
    /\ gen' = gen + 1
    /\ Goto("loop", "sw_launch")
    /\ UNCHANGED <<state, mu, err, ctxs, procs, twitch, hist, aux>>

\* chromedp.Run allocates the browser on first use; it fails when the context
\* is already cancelled or the browser cannot be started.
StreamWebsiteLaunch ==
    /\ ProcessLive
    /\ pc["loop"] = "sw_launch"
    /\ \/ /\ ~ChromeDone(gen)
          /\ chrome' = chrome \cup {gen}
          /\ err' = err
          /\ Goto("loop", "sw_nav")
       \/ /\ err' = "nav"
          /\ chrome' = chrome
          /\ Goto("loop", "sw_defers")
    /\ UNCHANGED <<state, mu, gen, ctxs, ffState, twitch, hist, aux>>

\* Faulty variant: a navigation failure returns without the deferred cancels.
StreamWebsiteNavigateNoDefer ==
    /\ ProcessLive
    /\ pc["loop"] = "sw_nav"
    /\ \/ /\ ~ChromeDone(gen)
          /\ err' = err
          /\ Goto("loop", "ff_start")
       \/ /\ err' = "nav"
          /\ Goto("loop", "loop_err")
    /\ UNCHANGED <<state, mu, gen, ctxs, procs, twitch, hist, aux>>

\* chromedp.Navigate + WaitVisible("body"): returns nil (then time.Sleep(3s) and
\* getDisplayInfo, which never fails), or an error (also when the context is
\* cancelled while it waits).
StreamWebsiteNavigate ==
    /\ ProcessLive
    /\ pc["loop"] = "sw_nav"
    /\ \/ /\ ~ChromeDone(gen)
          /\ err' = err
          /\ Goto("loop", "ff_start")
       \/ /\ err' = "nav"
          /\ Goto("loop", "sw_defers")
    /\ UNCHANGED <<state, mu, gen, ctxs, procs, twitch, hist, aux>>

\* Faulty variant: the pipeline is recorded as running as soon as the
\* encoder is spawned.
FFmpegSpawnRecords ==
    /\ ProcessLive
    /\ pc["loop"] = "ff_start"
    /\ \/ /\ ~StreamDone(gen)
          /\ ffState' = [ffState EXCEPT ![gen] = "alive"]
          /\ isRunning' = TRUE
          /\ cancelFunc' = gen
          /\ chromeCancel' = gen
          /\ ffmpegCmd' = gen
          /\ err' = err
          /\ Goto("loop", "ff_set")
       \/ /\ err' = "spawn"
          /\ ffState' = ffState
          /\ UNCHANGED state
          /\ Goto("loop", "sw_defers")
    /\ UNCHANGED <<mu, gen, ctxs, chrome, twitch, hist, aux>>

\* cmd := exec.CommandContext(ctx, "ffmpeg", ...); cmd.Start(): fails when
\* streamCtx is already done or the process cannot be created.
FFmpegSpawn ==
    /\ ProcessLive
    /\ pc["loop"] = "ff_start"
    /\ \/ /\ ~StreamDone(gen)
          /\ ffState' = [ffState EXCEPT ![gen] = "alive"]
          /\ err' = err
          /\ Goto("loop", "ff_set")
       \/ /\ err' = "spawn"
          /\ ffState' = ffState
          /\ Goto("loop", "sw_defers")
    /\ UNCHANGED <<state, mu, gen, ctxs, chrome, twitch, hist, aux>>

\* Faulty variant: the lock taken to record the pipeline is kept during Wait.
SetStreamRunningHoldsLock ==
    /\ ProcessLive
    /\ pc["loop"] = "ff_set"
    /\ mu = "free"
    /\ mu' = "loop"
    /\ isRunning' = TRUE
    /\ cancelFunc' = gen
    /\ chromeCancel' = gen
    /\ ffmpegCmd' = gen
    /\ Goto("loop", "ff_wait")
    /\ UNCHANGED <<gen, err, ctxs, procs, twitch, hist, aux>>

\* globalStreamState.setStreamRunning(streamCancel, chromeCancel, cmd)
SetStreamRunning ==
    /\ ProcessLive
    /\ pc["loop"] = "ff_set"
    /\ mu = "free"
    /\ isRunning' = TRUE
    /\ cancelFunc' = gen
    /\ chromeCancel' = gen
    /\ ffmpegCmd' = gen
    /\ Goto("loop", "ff_wait")
    /\ UNCHANGED <<mu, gen, err, ctxs, procs, twitch, hist, aux>>

\* Faulty variant: the loop goes on without waiting for the encoder to exit.
FFmpegWaitNotBlocking ==
    /\ ProcessLive
    /\ pc["loop"] = "ff_wait"
    /\ Goto("loop", "ff_ctxcheck")
    /\ UNCHANGED <<state, mu, gen, err, ctxs, procs, twitch, hist, aux>>

\* err = cmd.Wait(): returns once the encoder process has exited.
FFmpegWait ==
    /\ ProcessLive
    /\ pc["loop"] = "ff_wait"
    /\ ffState[gen] \notin {"none", "alive"}
    /\ Goto("loop", "ff_ctxcheck")
    /\ UNCHANGED <<state, mu, gen, err, ctxs, procs, twitch, hist, aux>>

\* if ctx.Err() != nil { return nil }; return err   (ctx is streamCtx)
\* Wait's err is nil only for exit status 0.
FFmpegClassifyExit ==
    /\ ProcessLive
    /\ pc["loop"] = "ff_ctxcheck"
    /\ err' = IF StreamDone(gen) THEN "nil"
              ELSE IF ffState[gen] = "exited0" THEN "nil" ELSE "exit"
    /\ Goto("loop", "ff_cleanup")
    /\ UNCHANGED <<state, mu, gen, ctxs, procs, twitch, hist, aux>>

\* Faulty variant: startFFmpegStream returns without its deferred cleanup.
FFmpegCleanupSkipped ==
    /\ ProcessLive
    /\ pc["loop"] = "ff_cleanup"
    /\ mu = "free"
    /\ Goto("loop", "sw_defers")
    /\ UNCHANGED <<state, mu, gen, err, ctxs, procs, twitch, hist, aux>>

\* Faulty variant: after the encoder has ended, startFFmpegStream sets up the
\* next generation itself instead of returning to the loop.
FFmpegCleanupRestartsInPlace ==
    /\ ProcessLive
    /\ pc["loop"] = "ff_cleanup"
    /\ mu = "free"
    /\ isRunning' = FALSE
    /\ cancelFunc' = NoGen
    /\ chromeCancel' = NoGen
    /\ ffmpegCmd' = NoGen
    /\ Goto("loop", "sw_ctx")
    /\ UNCHANGED <<mu, gen, err, ctxs, procs, twitch, hist, aux>>

\* Faulty variant: the deferred cleanup resets isRunning only.
FFmpegCleanupOnlyFlag ==
    /\ ProcessLive
    /\ pc["loop"] = "ff_cleanup"
    /\ mu = "free"
    /\ isRunning' = FALSE
    /\ Goto("loop", "sw_defers")
    /\ UNCHANGED <<cancelFunc, chromeCancel, ffmpegCmd, mu, gen, err, ctxs, procs, twitch, hist, aux>>

\* the deferred func of startFFmpegStream: Lock; clear the four fields; Unlock.
FFmpegCleanup ==
    /\ ProcessLive
    /\ pc["loop"] = "ff_cleanup"
    /\ mu = "free"
    /\ isRunning' = FALSE
    /\ cancelFunc' = NoGen
    /\ chromeCancel' = NoGen
    /\ ffmpegCmd' = NoGen
    /\ Goto("loop", "sw_defers")
    /\ UNCHANGED <<mu, gen, err, ctxs, procs, twitch, hist, aux>>

\* Faulty variant: the deferred cancels do not wait for the browser to close.
StreamWebsiteDefersLeavesBrowser ==
    /\ ProcessLive
    /\ pc["loop"] = "sw_defers"
    /\ chrome' = chrome
    /\ chromeCancelled' = chromeCancelled \cup {gen}
    /\ streamCancelled' = streamCancelled \cup {gen}
    /\ Goto("loop", "loop_err")
    /\ UNCHANGED <<state, mu, gen, err, rootDone, ffState, twitch, hist, aux>>

\* streamWebsite's defers: chromeCancel(), allocCancel(), streamCancel().
\* The chromedp cancels close the browser and wait for it.
StreamWebsiteDefers ==
    /\ ProcessLive
    /\ pc["loop"] = "sw_defers"
    /\ chrome' = chrome \ {gen}
    /\ chromeCancelled' = chromeCancelled \cup {gen}
    /\ streamCancelled' = streamCancelled \cup {gen}
    /\ Goto("loop", "loop_err")
    /\ UNCHANGED <<state, mu, gen, err, rootDone, ffState, twitch, hist, aux>>

\* Faulty variant: any error of streamWebsite ends the loop.
LoopHandleResultFatal ==
    /\ ProcessLive
    /\ pc["loop"] = "loop_err"
    /\ IF err = "nil" THEN Goto("loop", "select") ELSE Goto("loop", "exited")
    /\ err' = "nil"
    /\ UNCHANGED <<state, mu, gen, ctxs, procs, twitch, hist, aux>>

\* Faulty variant: the loop returns when streamWebsite returns nil.
LoopHandleResultReturnsOnNil ==
    /\ ProcessLive
    /\ pc["loop"] = "loop_err"
    /\ IF err = "nil" THEN Goto("loop", "exited")
       ELSE IF rootDone THEN Goto("loop", "exited")
       ELSE Goto("loop", "backoff")
    /\ err' = "nil"
    /\ UNCHANGED <<state, mu, gen, ctxs, procs, twitch, hist, aux>>

\* if err := streamWebsite(ctx, config); err != nil {
\*     if ctx.Err() != nil { return }; log; time.Sleep(5s) }
\* err is scoped to the if statement.
LoopHandleResult ==
    /\ ProcessLive
    /\ pc["loop"] = "loop_err"
    /\ IF err = "nil" THEN Goto("loop", "select")
       ELSE IF rootDone THEN Goto("loop", "exited")
       ELSE Goto("loop", "backoff")
    /\ err' = "nil"
    /\ UNCHANGED <<state, mu, gen, ctxs, procs, twitch, hist, aux>>

\* time.Sleep(5 * time.Second) is over
LoopBackoff ==
    /\ ProcessLive
    /\ pc["loop"] = "backoff"
    /\ Goto("loop", "select")
    /\ UNCHANGED <<state, mu, gen, err, ctxs, procs, twitch, hist, aux>>

\* ---------------------------------------------------------------- child processes

\* The encoder exits on its own, with a failure or with status 0.
FFmpegExits(g) ==
    /\ ProcessLive
    /\ ffState[g] = "alive"
    /\ \E how \in {"failed", "exited0"} : ffState' = [ffState EXCEPT ![g] = how]
    /\ UNCHANGED <<state, mu, pc, gen, err, ctxs, chrome, twitch, hist, aux>>

\* exec.CommandContext kills the process once its context is done.
FFmpegContextKill(g) ==
    /\ ProcessLive
    /\ ffState[g] = "alive"
    /\ StreamDone(g)
    /\ ffState' = [ffState EXCEPT ![g] = "killed"]
    /\ UNCHANGED <<state, mu, pc, gen, err, ctxs, chrome, twitch, hist, aux>>

\* The exec allocator kills the browser once its context is done.
ChromeContextKill(g) ==
    /\ ProcessLive
    /\ g \in chrome
    /\ ChromeDone(g)
    /\ chrome' = chrome \ {g}
    /\ UNCHANGED <<state, mu, pc, gen, err, ctxs, ffState, twitch, hist, aux>>

\* ---------------------------------------------------------------- status checker (cron func)

\* The cron schedule fires the func, which calls twitch.GetClient:
\* clientOnce.Do(initializeClient), panic on its error.
MonitorGetClient ==
    /\ ProcessLive
    /\ pc["monitor"] = "mon_idle"
    /\ IF client = "ready"
         THEN /\ Goto("monitor", "mon_query")
              /\ UNCHANGED <<client, crashed>>
         ELSE \/ /\ credsSet
                 /\ client' = "ready"
                 /\ crashed' = crashed
                 /\ Goto("monitor", "mon_query")
              \/ /\ crashed' = TRUE
                 /\ client' = client
                 /\ pc' = pc
    /\ queryResult' = "none"
    /\ UNCHANGED <<state, mu, gen, err, ctxs, procs, credsSet, hist, aux>>

\* Faulty variant: a failed query restarts the stream as well.
MonitorQueryRestartsOnError ==
    /\ ProcessLive
    /\ pc["monitor"] = "mon_query"
    /\ \E answer \in {"error", "live", "notlive"} :
         /\ queryResult' = answer
         /\ IF answer \in {"notlive", "error"}
              THEN Goto("monitor", "stop_enter")
              ELSE Goto("monitor", "mon_idle")
    /\ UNCHANGED <<state, mu, gen, err, ctxs, procs, client, credsSet, crashed, hist, aux>>

\* client.GetStreams: an error (logged, return), no stream (not live:
\* RestartStream), or a stream (logged).
MonitorQuery ==
    /\ ProcessLive
    /\ pc["monitor"] = "mon_query"
    /\ \E answer \in {"error", "live", "notlive"} :
         /\ queryResult' = answer
         /\ IF answer = "notlive"
              THEN Goto("monitor", "stop_enter")
              ELSE Goto("monitor", "mon_idle")
    /\ UNCHANGED <<state, mu, gen, err, ctxs, procs, client, credsSet, crashed, hist, aux>>

\* Faulty variant: RestartStream starts the stream itself after stopping it.
MonitorRestartStartsStream ==
    /\ ProcessLive
    /\ pc["monitor"] = "mon_ret"
    /\ gen > 0
    /\ mu = "free"
    /\ ffState' = [ffState EXCEPT ![gen] = "alive"]
    /\ isRunning' = TRUE
    /\ cancelFunc' = gen
    /\ chromeCancel' = gen
    /\ ffmpegCmd' = gen
    /\ Goto("monitor", "mon_idle")
    /\ obs' = [obs EXCEPT !["monitor"] = NoObs]
    /\ UNCHANGED <<mu, gen, err, ctxs, chrome, twitch, stops, aux>>

\* RestartStream returned nil; the cron func ends.
MonitorRestartReturned ==
    /\ ProcessLive
    /\ pc["monitor"] = "mon_ret"
    /\ Goto("monitor", "mon_idle")
    /\ obs' = [obs EXCEPT !["monitor"] = NoObs]
    /\ UNCHANGED <<state, mu, gen, err, ctxs, procs, twitch, stops, aux>>

\* ---------------------------------------------------------------- signal handler

\* <-c : SIGINT or SIGTERM arrives; StopCurrentStream(ctx) is called.
SignalReceived ==
    /\ ProcessLive
    /\ pc["signal"] = "sig_wait"
    /\ Goto("signal", "stop_enter")
    /\ UNCHANGED <<state, mu, gen, err, ctxs, procs, twitch, hist, aux>>

\* server.Shutdown(shutdownCtx) has returned (at most 5 seconds after the
\* stop); cancel(): the root context is cancelled.
SignalCancelRoot ==
    /\ ProcessLive
    /\ pc["signal"] = "sig_http"
    /\ rootDone' = TRUE
    /\ Goto("signal", "sig_done")
    /\ UNCHANGED <<state, mu, gen, err, streamCancelled, chromeCancelled, procs, twitch, hist, aux>>

\* ---------------------------------------------------------------- HTTP server

\* getHealthResponse: the handler writes no status (so 200) and encodes
\* Health{Uptime, Message: "OK", Date}; it reads nothing of StreamState.
getHealthResponse == [answered |-> TRUE, status |-> 200, message |-> "OK"]

\* Faulty variant: the handler reports whether a pipeline is running.
HealthRequestReportsPipeline ==
    /\ ProcessLive
    /\ pc["signal"] # "sig_done"
    /\ health' = IF isRunning THEN getHealthResponse
                 ELSE [answered |-> TRUE, status |-> 503, message |-> "DOWN"]
    /\ UNCHANGED <<state, mu, pc, gen, err, ctxs, procs, twitch, hist, env, tokenGranted,
                   config, ffmpeg, once, caller, unset, bitrateArg, number>>

\* GET /health is served, from the start of the server in main until the
\* signal handler's server.Shutdown.
HealthRequest ==
    /\ ProcessLive
    /\ pc["signal"] # "sig_done"
    /\ health' = getHealthResponse
    /\ UNCHANGED <<state, mu, pc, gen, err, ctxs, procs, twitch, hist, env, tokenGranted,
                   config, ffmpeg, once, caller, unset, bitrateArg, number>>

\* ---------------------------------------------------------------- specification

LoopStep ==
    \/ LoopSelect
    \/ StreamWebsiteCheck
    \/ StreamWebsiteNewCtx
    \/ StreamWebsiteLaunch
    \/ StreamWebsiteNavigate
    \/ FFmpegSpawn
    \/ SetStreamRunning
    \/ FFmpegWait
    \/ FFmpegClassifyExit
    \/ FFmpegCleanup
    \/ StreamWebsiteDefers
    \/ LoopHandleResult
    \/ LoopBackoff

StopStep(t) ==
    \/ StopEnter(t)
    \/ StopKill(t)
    \/ StopChrome(t)
    \/ StopCancel(t)
    \/ StopClear(t)

MonitorStep ==
    \/ MonitorGetClient
    \/ MonitorQuery
    \/ MonitorRestartReturned

SignalStep ==
    \/ SignalReceived
    \/ SignalCancelRoot

ProcStep ==
    \E g \in Gens :
        \/ FFmpegExits(g)
        \/ FFmpegContextKill(g)
        \/ ChromeContextKill(g)

ServerStep == HealthRequest

Next ==
    \/ LoopStep
    \/ \E t \in Threads : StopStep(t)
    \/ MonitorStep
    \/ SignalStep
    \/ ProcStep
    \/ ServerStep

Spec == Init /\ [][Next]_vars

\* Scheduling: the run loop goroutine and every stopStream in progress keep
\* being scheduled (each of their steps returns: no call blocks forever).
FairSpec ==
    /\ Spec
    /\ WF_vars(LoopStep)
    /\ \A t \in Threads : WF_vars(StopStep(t))

\* streamWebsite invoked on a state in which a pipeline is already recorded
\* as running (the state setStreamRunning leaves, as the package's tests build
\* it): generation 1 streams, or is recorded with a command that was never
\* started and contexts no browser runs in, and the caller is about to enter
\* streamWebsite.
InitRunning ==
    /\ isRunning = TRUE
    /\ cancelFunc = 1
    /\ chromeCancel = 1
    /\ ffmpegCmd = 1
    /\ mu = "free"
    /\ pc = [t \in Threads |->
                CASE t = "loop" -> "select"
                  [] t = "monitor" -> "mon_idle"
                  [] t = "signal" -> "sig_wait"]
    /\ gen = 1
    /\ err = "nil"
    /\ rootDone = FALSE
    /\ streamCancelled = {}
    /\ chromeCancelled = {}
    /\ \E started \in BOOLEAN :
          /\ chrome = IF started THEN {1} ELSE {}
          /\ ffState = [g \in Gens |-> IF g = 1 /\ started THEN "alive" ELSE "none"]
    /\ client = "uninit"
    /\ credsSet \in BOOLEAN
    /\ crashed = FALSE
    /\ queryResult = "none"
    /\ stops = [g \in Gens |-> <<>>]
    /\ obs = [t \in Threads |-> NoObs]
    /\ env = IF credsSet THEN EnvWith("id", "secret") ELSE EnvWith("", "")
    /\ tokenGranted = TRUE
    /\ config = [loaded |-> TRUE, config |-> loadConfig(env).config,
                 err |-> loadConfig(env).err]
    /\ ffmpeg = NoCommand
    /\ once = NoOnce
    /\ caller = NoCalls
    /\ unset = ConfigKeys
    /\ health = NoResponse
    /\ bitrateArg = << >>
    /\ number = NoNumber

SpecStartWhileRunning == InitRunning /\ [][Next]_vars

\* ---------------------------------------------------------------- loadConfig and the encoder command on their own

\* The supervisor before main has started anything; it stays so in the
\* specifications of the single functions.
SupervisorIdle ==
    /\ isRunning = FALSE
    /\ cancelFunc = NoGen
    /\ chromeCancel = NoGen
    /\ ffmpegCmd = NoGen
    /\ mu = "free"
    /\ pc = [t \in Threads |->
                CASE t = "loop" -> "select"
                  [] t = "monitor" -> "mon_idle"
                  [] t = "signal" -> "sig_wait"]
    /\ gen = 0
    /\ err = "nil"
    /\ rootDone = FALSE
    /\ streamCancelled = {}
    /\ chromeCancelled = {}
    /\ chrome = {}
    /\ ffState = [g \in Gens |-> "none"]
    /\ client = "uninit"
    /\ crashed = FALSE
    /\ queryResult = "none"
    /\ stops = [g \in Gens |-> <<>>]
    /\ obs = [t \in Threads |-> NoObs]

\* Values of $RESOLUTION: unset, the three supported names, other spellings
\* of them, and unsupported values.
ResolutionInputs ==
    {<< >>, <<"7", "2", "0", "p">>, <<"1", "0", "8", "0", "p">>, <<"2", "k">>, <<"7", "2", "0", "P">>, <<"1", "0", "8", "0", "P">>, <<"2", "K">>, <<"4", "k">>, <<"1", "0", "8", "0">>, <<"1", "0", "8", "0", "p", " ">>}

\* Values of $FRAMERATE: unset, the two supported values, and others.
FramerateInputs ==
    {<< >>, <<"3", "0">>, <<"6", "0">>, <<"2", "4">>, <<"1", "2", "0">>, <<"0", "6", "0">>, <<"+", "6", "0">>, <<"6", "0", "f", "p", "s">>, <<"f", "a", "s", "t">>}

DisplayInputs == {<< >>, <<":", "9", "9">>}

RtmpInputs == {<< >>, <<"r", "t", "m", "p", ":", "/", "/", "a", "/", "b">>}

\* Values of $WEBSITE_URL, the variable loadConfig reads, and of
\* $WEBPAGE_URL, the variable README.md documents.
WebsiteInputs == {<< >>, <<"h", "t", "t", "p", ":", "/", "/", "s">>}

WebpageInputs == {<< >>, <<"h", "t", "t", "p", ":", "/", "/", "p">>}

\* The process starts with some environment; nothing is loaded yet. A
\* variable whose value is empty is either absent or set to the empty string.
InitConfig ==
    /\ SupervisorIdle
    /\ credsSet = FALSE
    /\ env \in {[EnvWith("", "") EXCEPT !.RESOLUTION = r, !.FRAMERATE = f,
                                        !.DISPLAY = d, !.RTMP_URL = u,
                                        !.WEBSITE_URL = w, !.WEBPAGE_URL = p] :
                  r \in ResolutionInputs, f \in FramerateInputs,
                  d \in DisplayInputs, u \in RtmpInputs,
                  w \in WebsiteInputs, p \in WebpageInputs}
    /\ unset \in SUBSET {k \in ConfigKeys : env[k] = << >>}
    /\ tokenGranted = TRUE
    /\ config = NoConfig
    /\ ffmpeg = NoCommand
    /\ once = NoOnce
    /\ caller = NoCalls
    /\ health = NoResponse
    /\ bitrateArg = << >>
    /\ number = NoNumber

\* config, err := loadConfig(ctx)   (main)
LoadConfig ==
    /\ ~config.loaded
    /\ config' = [loaded |-> TRUE, config |-> loadConfig(env).config,
                  err |-> loadConfig(env).err]
    /\ UNCHANGED <<supervisor, unset, health, bitrateArg, number, env, tokenGranted, ffmpeg, once, caller>>

\* startFFmpegStream up to the construction of args, with the display of
\* getDisplayInfo and the loaded configuration.
BuildFFmpegCommand ==
    /\ config.loaded
    /\ config.err = "nil"
    /\ ~ffmpeg.built
    /\ ffmpeg' = [built |-> TRUE,
                  keyframeInterval |-> keyframeInterval(config.config),
                  videoBitrate |-> videoBitrate(config.config),
                  audioBitrate |-> audioBitrate,
                  bufferSize |-> bufferSize(videoBitrate(config.config)),
                  args |-> ffmpegArgs(config.config, getDisplayInfo(env))]
    /\ UNCHANGED <<supervisor, unset, health, bitrateArg, number, env, tokenGranted, config, once, caller>>

NextConfig ==
    \/ LoadConfig
    \/ BuildFFmpegCommand

ConfigSpec == InitConfig /\ [][NextConfig]_vars

\* ---------------------------------------------------------------- extractNumberFromBitrate on its own

\* Longest argument built from BitrateAlphabet.
MaxBitrateLen == 3

BitrateAlphabet == {"3", "0", "k", "x", "-", "+"}

\* Arguments of extractNumberFromBitrate: every string over the alphabet up
\* to the length bound, the values of the bitrate table and of the tests, a
\* number without suffix, and numbers at and beyond the ends of int.
BitrateInputs ==
    UNION {[1..n -> BitrateAlphabet] : n \in 0..MaxBitrateLen}
      \cup {<<"3", "0", "0", "0", "k">>, <<"4", "5", "0", "0", "k">>, <<"6", "0", "0", "0", "k">>, <<"8", "5", "0", "0", "k">>, <<"9", "0", "0", "0", "k">>, <<"1", "2", "0", "0", "0", "k">>, <<"1", "0", "0", "0", "k">>,
             <<"i", "n", "v", "a", "l", "i", "d", "k">>, <<"3", "0", "0", "0">>, <<"6", "0", "0", "0", "K">>, <<"9", "9", "9", "9", "9", "9", "9", "9", "9", "9", "9", "9", "9", "9", "9", "9", "9", "9", "9", "9", "k">>,
             <<"9", "2", "2", "3", "3", "7", "2", "0", "3", "6", "8", "5", "4", "7", "7", "5", "8", "0", "8", "k">>, <<"-", "9", "2", "2", "3", "3", "7", "2", "0", "3", "6", "8", "5", "4", "7", "7", "5", "8", "0", "9", "k">>}

InitBitrate ==
    /\ SupervisorIdle
    /\ credsSet = FALSE
    /\ env = EnvWith("", "")
    /\ unset = ConfigKeys
    /\ tokenGranted = TRUE
    /\ config = NoConfig
    /\ ffmpeg = NoCommand
    /\ once = NoOnce
    /\ caller = NoCalls
    /\ health = NoResponse
    /\ bitrateArg \in BitrateInputs
    /\ number = NoNumber

\* extractNumberFromBitrate(bitrate) is called and returns.
ExtractNumberFromBitrate ==
    /\ ~number.returned
    /\ number' = [returned |-> TRUE, n |-> extractNumberFromBitrate(bitrateArg)]
    /\ UNCHANGED <<supervisor, unset, health, bitrateArg, env, tokenGranted, config,
                   ffmpeg, once, caller>>

NextBitrate == ExtractNumberFromBitrate

BitrateSpec == InitBitrate /\ [][NextBitrate]_vars

\* ---------------------------------------------------------------- twitch.GetClient on its own

\* Some goroutines are about to call GetClient; the credentials are set or
\* not and the token request will succeed or not.
InitClient ==
    /\ SupervisorIdle
    /\ credsSet \in BOOLEAN
    /\ \E id \in {"", "id"}, secret \in {"", "secret"} :
          /\ credsSet = (id # "" /\ secret # "")
          /\ env = EnvWith(id, secret)
    /\ tokenGranted \in BOOLEAN
    /\ config = NoConfig
    /\ ffmpeg = NoCommand
    /\ once = NoOnce
    /\ caller = NoCalls
    /\ unset = ConfigKeys
    /\ health = NoResponse
    /\ bitrateArg = << >>
    /\ number = NoNumber

\* The process runs until the unrecovered panic has ended it.
ClientLive == ~once.dead

At(c, p) == caller' = [caller EXCEPT ![c].pc = p]

\* A goroutine calls GetClient (again).
GetClientCall(c) ==
    /\ ClientLive
    /\ caller[c].pc \in {"idle", "returned"}
    /\ At(c, "do")
    /\ UNCHANGED <<supervisor, unset, health, bitrateArg, number, env, tokenGranted, config, ffmpeg, once>>

\* clientOnce.Do: the fast path returns when done is set, else doSlow.
OnceDo(c) ==
    /\ ClientLive
    /\ caller[c].pc = "do"
    /\ IF once.done THEN At(c, "ret") ELSE At(c, "lock")
    /\ UNCHANGED <<supervisor, unset, health, bitrateArg, number, env, tokenGranted, config, ffmpeg, once>>

\* Faulty variant: the function runs without a second test of done under the mutex.
OnceLockNoRecheck(c) ==
    /\ ClientLive
    /\ caller[c].pc = "lock"
    /\ once.m = 0
    /\ once' = [once EXCEPT !.m = c]
    /\ At(c, "init")
    /\ UNCHANGED <<supervisor, unset, health, bitrateArg, number, env, tokenGranted, config, ffmpeg>>

\* doSlow: Lock; if done is still unset the function is run, else Unlock and return.
OnceLock(c) ==
    /\ ClientLive
    /\ caller[c].pc = "lock"
    /\ once.m = 0
    /\ IF once.done
         THEN once' = once /\ At(c, "ret")
         ELSE once' = [once EXCEPT !.m = c] /\ At(c, "init")
    /\ UNCHANGED <<supervisor, unset, health, bitrateArg, number, env, tokenGranted, config, ffmpeg>>

\* client, err = initializeClient(ctx); if err != nil { panic(...) }.
\* doSlow's deferred done.Store(1) and Unlock run in both cases; a panic then
\* goes on to end the process.
OnceInit(c) ==
    /\ ClientLive
    /\ caller[c].pc = "init"
    /\ once.m = c
    /\ IF initializeClient(env, tokenGranted).err = "nil"
         THEN /\ once' = [once EXCEPT !.done = TRUE, !.m = 0, !.inits = @ + 1,
                                       !.client = once.inits + 1]
              /\ At(c, "ret")
         ELSE /\ once' = [once EXCEPT !.done = TRUE, !.m = 0, !.inits = @ + 1,
                                       !.panicking = TRUE]
              /\ At(c, "panicked")
    /\ UNCHANGED <<supervisor, unset, health, bitrateArg, number, env, tokenGranted, config, ffmpeg>>

\* return client
GetClientReturn(c) ==
    /\ ClientLive
    /\ caller[c].pc = "ret"
    /\ caller' = [caller EXCEPT ![c].pc = "returned",
                                ![c].rets = @ \cup {once.client}]
    /\ UNCHANGED <<supervisor, unset, health, bitrateArg, number, env, tokenGranted, config, ffmpeg, once>>

\* The panic, which nothing recovers, ends the process.
PanicExit ==
    /\ ClientLive
    /\ once.panicking
    /\ once' = [once EXCEPT !.dead = TRUE]
    /\ UNCHANGED <<supervisor, unset, health, bitrateArg, number, env, tokenGranted, config, ffmpeg, caller>>

CallerStep(c) ==
    \/ GetClientCall(c)
    \/ OnceDo(c)
    \/ OnceLock(c)
    \/ OnceInit(c)
    \/ GetClientReturn(c)

NextClient ==
    \/ \E c \in Callers : CallerStep(c)
    \/ PanicExit

ClientSpec == InitClient /\ [][NextClient]_vars

\* ================================================================ properties

StateEmpty ==
    /\ ~isRunning
    /\ cancelFunc = NoGen
    /\ chromeCancel = NoGen
    /\ ffmpegCmd = NoGen

StatePopulated ==
    /\ isRunning
    /\ cancelFunc # NoGen
    /\ chromeCancel # NoGen
    /\ ffmpegCmd # NoGen

\* C1: in every reachable state at most one encoder process and at most one
\* renderer session is alive, and whatever is alive belongs to the loop's
\* current generation: a generation is created only once the previous one's
\* encoder and browser are gone.
AtMostOnePipeline ==
    /\ Cardinality(AliveFf) <= 1
    /\ Cardinality(chrome) <= 1
    /\ \A g \in AliveFf \cup chrome : g = gen

\* C1 witness: generation 1 was torn down by a Restart and generation 2 is streaming.
RestartedPipelineWitness ==
    /\ gen = 2
    /\ ffState[1] = "killed"
    /\ \E i \in 1..Len(stops[1]) : stops[1][i] = Did("monitor", "kill")
    /\ ffState[2] = "alive"
    /\ chrome = {2}
    /\ isRunning

\* C2: whenever the state lock is not held, isRunning and the three handles
\* are all set or all clear.
RunningIffHandles ==
    mu = "free" => (StatePopulated \/ StateEmpty)

\* C2 witness: the lock is free and a pipeline is recorded.
RunningRecordedWitness ==
    /\ mu = "free"
    /\ StatePopulated
    /\ pc["loop"] = "ff_wait"
    /\ \A t \in Threads : pc[t] \notin StopPcs

\* C3 as claimed: once a Stop of the monitor or the signal handler has
\* returned, and until that caller acts again, isRunning is false (so its next
\* IsRunning() would return false).
NotRunningAfterStopReturned ==
    \A t \in {"monitor", "signal"} : pc[t] = RetOf(t) => ~isRunning

\* C3 amended: at the step on which a Stop returns, the state is empty.
StopReturnsWithStateEmpty ==
    [][\A t \in Threads :
          (pc[t] \in StopPcs /\ pc'[t] = RetOf(t)) => StateEmpty']_vars

\* C3 witness: the shutdown Stop found a pipeline running, tore it down and returned.
StopReturnedWitness ==
    /\ pc["signal"] = "sig_http"
    /\ obs["signal"].ran
    /\ ffState[obs["signal"].gen] = "killed"
    /\ StateEmpty

\* Number of times stopStream has invoked op on generation g.
StopCount(g, op) ==
    Cardinality({i \in 1..Len(stops[g]) : stops[g][i].op = op})

\* C4 as claimed: once the shutdown Stop has torn down the active pipeline and
\* returned, that generation was torn down by Stop exactly once and the loop
\* has created no further generation.
NoGenerationAfterShutdownStop ==
    (obs["signal"].ran /\ pc["signal"] \in {"sig_http", "sig_done"}) =>
        /\ StopCount(obs["signal"].gen, "kill") = 1
        /\ gen = obs["signal"].gen

\* C5: (under SpecStartWhileRunning) a new encoder is spawned only when no
\* encoder is alive and the state is clear, the spawned encoder is then the
\* only one alive, and when Start records the state it records that encoder
\* and no other encoder is alive.
StartReplacesRunningPipeline ==
    [][/\ (AliveFf' \ AliveFf # {}) =>
             (AliveFf = {} /\ StateEmpty /\ AliveFf' = {gen'})
       /\ (pc["loop"] = "ff_set" /\ pc'["loop"] = "ff_wait") =>
             (isRunning' /\ ffmpegCmd' = gen' /\ AliveFf' \subseteq {gen'})]_vars

\* C5 witness: Start found generation 1 running, killed its encoder through
\* its own stopStream, and has recorded generation 2, whose encoder is alive.
StartReplacedWitness ==
    /\ obs["loop"].ran
    /\ StopCount(1, "kill") = 1
    /\ stops[1][1] = Did("loop", "kill")
    /\ ffState[1] = "killed"
    /\ pc["loop"] = "ff_wait"
    /\ isRunning
    /\ ffmpegCmd = 2
    /\ AliveFf = {2}

\* streamWebsite has returned after a failure that no cancellation caused:
\* navigation or spawn failed, or the encoder exited by itself with an error.
\* No shutdown has begun, so the root context is not and is not about to be cancelled.
UnexpectedEnd ==
    /\ pc["loop"] = "loop_err"
    /\ err \in {"nav", "spawn"} \/ ffState[gen] = "failed"
    /\ pc["signal"] = "sig_wait"

\* C6 as claimed: whenever streamWebsite returns after a Start failure or an
\* encoder exit with a non-cancellation error and the root context is not
\* cancelled, the loop's next step is the backoff, after which it re-enters
\* the select and (root still not cancelled) streamWebsite.
BackoffThenRestartAfterFailure ==
    [][/\ (UnexpectedEnd /\ ~rootDone) => pc'["loop"] \in {"loop_err", "backoff"}
       /\ pc["loop"] = "backoff" => pc'["loop"] \in {"backoff", "select"}
       /\ (pc["loop"] = "select" /\ ~rootDone) =>
             pc'["loop"] \in {"select", "sw_check"}]_vars

\* C7: the run loop has returned only if the root context is cancelled, and
\* the process dies of a panic only in the status checker's client
\* initialisation, never because of a navigation failure, a spawn failure,
\* an encoder exit or a Restart.
LoopReturnsOnlyOnRootCancel ==
    /\ pc["loop"] = "exited" => rootDone
    /\ crashed => (client = "uninit" /\ pc["monitor"] = "mon_idle")

\* C7 witness: generation 1's encoder failed by itself, the loop went on to
\* generation 2, and it returned once the root context was cancelled.
LoopSurvivedFailureWitness ==
    /\ pc["loop"] = "exited"
    /\ rootDone
    /\ ffState[1] = "failed"
    /\ gen = 2

\* C8: (under FairSpec) after a Restart has torn down running generation g,
\* the loop eventually has a later generation recorded as running, unless a
\* Start fails or a shutdown signal arrives first.
RestartLeadsToRunning ==
    \A g \in 1..(MaxGen - 1) :
        (pc["monitor"] = "mon_ret" /\ obs["monitor"].ran /\ obs["monitor"].gen = g
            /\ gen = g /\ pc["signal"] = "sig_wait")
            ~> \/ isRunning /\ gen > g
               \/ pc["loop"] = "loop_err" /\ err \in {"nav", "spawn"}
               \/ pc["signal"] # "sig_wait"

\* C8 witness: the Restart tore generation 1 down and generation 2 is recorded as running.
RunningAgainWitness ==
    /\ StopCount(1, "cancel") = 1
    /\ stops[1][1].by = "monitor"
    /\ pc["signal"] = "sig_wait"
    /\ isRunning
    /\ gen = 2
    /\ cancelFunc = 2

\* C9: a step that sets isRunning, starts a browser or an encoder, or creates
\* a generation is a step of the run loop; a step of the status checker or of
\* the signal handler leaves the state as it is or clears it.
OnlyLoopCreates ==
    [][/\ (\/ ~isRunning /\ isRunning'
           \/ chrome' \ chrome # {}
           \/ AliveFf' \ AliveFf # {}
           \/ gen' # gen) => pc'["loop"] # pc["loop"]
       /\ \A t \in {"monitor", "signal"} :
             pc'[t] # pc[t] => (state' = state \/ StateEmpty')]_vars

\* C9 witness: RestartStream has returned after tearing the pipeline down;
\* nothing is alive and nothing is recorded until the loop acts.
RestartOnlyClearedWitness ==
    /\ pc["monitor"] = "mon_ret"
    /\ obs["monitor"].ran
    /\ obs["monitor"].gen = gen
    /\ StateEmpty
    /\ AliveFf = {}
    /\ chrome = {}

\* C10: whenever the lock is free the state is either empty or holds
\* isRunning and the three handles of the loop's current generation.
HandlesOfCurrentGeneration ==
    mu = "free" =>
        \/ StateEmpty
        \/ isRunning /\ cancelFunc = gen /\ chromeCancel = gen /\ ffmpegCmd = gen

\* C10 witness: a Restart arrived while Start of this generation was in
\* flight; both have completed and the state holds this generation.
RestartDuringStartWitness ==
    /\ pc["monitor"] = "mon_ret"
    /\ obs["monitor"].phase = "starting"
    /\ obs["monitor"].gen = gen
    /\ pc["loop"] = "ff_wait"
    /\ isRunning
    /\ ffmpegCmd = gen

\* C11: once the run loop has returned, no encoder process and no browser is
\* alive and the state is empty; an encoder that was still running when the
\* root context was cancelled has been killed through its context.
CleanAfterLoopReturn ==
    pc["loop"] = "exited" =>
        /\ rootDone
        /\ AliveFf = {}
        /\ chrome = {}
        /\ StateEmpty
        /\ \A g \in Gens : ffState[g] # "none" => g \in streamCancelled

\* C11 witness: the loop has returned and the encoder of the last generation
\* was killed by the cancellation of the root context, not by a stopStream.
RootCancelToreDownWitness ==
    /\ pc["loop"] = "exited"
    /\ gen > 0
    /\ ffState[gen] = "killed"
    /\ StopCount(gen, "kill") = 0
    /\ StopCount(gen, "cancel") = 0

\* C12: no step of a stopStream (of Stop, of Restart or of Start) and no step
\* of the status checker cancels the root context; a stopStream cancels
\* nothing but the contexts recorded in the state; and as long as the root
\* context is live the loop's select enters streamWebsite again.
StopLeavesRootContext ==
    [][/\ rootDone' # rootDone =>
             (pc["signal"] = "sig_http" /\ pc'["signal"] = "sig_done")
       /\ \A t \in Threads :
             (pc[t] \in StopPcs /\ pc'[t] # pc[t]) =>
                 /\ rootDone' = rootDone
                 /\ streamCancelled' \ streamCancelled \subseteq {cancelFunc}
                 /\ chromeCancelled' \ chromeCancelled \subseteq {chromeCancel}
       /\ (pc["loop"] = "select" /\ ~rootDone /\ pc'["loop"] # "select") =>
             pc'["loop"] = "sw_check"]_vars

\* C12 witness: a Restart cancelled generation 1; the root context is live and
\* the loop has started generation 2, whose own context is live.
RestartedUnderLiveRootWitness ==
    /\ ~rootDone
    /\ StopCount(1, "cancel") = 1
    /\ stops[1][3].by = "monitor"
    /\ 1 \in streamCancelled
    /\ gen = 2
    /\ ~StreamDone(2)
    /\ ffState[2] = "alive"
    /\ pc["loop"] = "ff_set"

\* C13: a RestartStream that finds no pipeline running returns in that same
\* step: it kills nothing, calls no cancel handle, changes neither the state
\* nor any context or process, does not end the process, and isRunning is
\* still false when it returns.
RestartWhileIdleIsNoOp ==
    [][(pc["monitor"] = "stop_enter" /\ pc'["monitor"] # "stop_enter" /\ ~isRunning) =>
          /\ pc'["monitor"] = "mon_ret"
          /\ state' = state
          /\ ~isRunning'
          /\ stops' = stops
          /\ ctxs' = ctxs
          /\ procs' = procs
          /\ mu' = "free"
          /\ crashed' = crashed]_vars

\* C13 witness: RestartStream has returned without having found a pipeline,
\* while the loop was between two streamWebsite calls; nothing is recorded.
RestartWhileIdleWitness ==
    /\ pc["monitor"] = "mon_ret"
    /\ ~obs["monitor"].ran
    /\ obs["monitor"].phase = "idle"
    /\ StateEmpty
    /\ \A g \in Gens : stops[g] = << >>

\* C14: a stopStream called when a stopStream has already torn down the
\* current generation returns at once with the state empty, as the first call
\* left it, and without a kill or a cancel; over a whole run no generation is
\* killed or has either of its cancel handles called by stopStream twice.
StopIsIdempotent ==
    [][/\ \A t \in Threads :
             (pc[t] = "stop_enter" /\ pc'[t] # "stop_enter"
                 /\ gen > 0 /\ StopCount(gen, "cancel") = 1) =>
                 /\ pc'[t] = RetOf(t)
                 /\ StateEmpty
                 /\ state' = state
                 /\ stops' = stops
                 /\ ctxs' = ctxs
                 /\ procs' = procs
       /\ \A g \in Gens : \A op \in {"kill", "chrome", "cancel"} :
             Cardinality({i \in 1..Len(stops'[g]) : stops'[g][i].op = op}) <= 1]_vars

\* C14 witness: the status checker stopped the generation, and the shutdown
\* Stop that followed while the loop was still in that generation's Wait
\* found nothing to stop.
SecondStopWitness ==
    /\ pc["signal"] = "sig_http"
    /\ ~obs["signal"].ran
    /\ obs["signal"].phase = "running"
    /\ obs["signal"].gen = gen
    /\ gen > 0
    /\ StopCount(gen, "kill") = 1
    /\ stops[gen][1].by = "monitor"
    /\ StateEmpty

\* The teardown steps of stopStream, in the order of its code.
StopOrder == <<"kill", "chrome", "cancel">>

\* C15: a stopStream that found a pipeline running holds the lock from its
\* isRunning test to its return; it kills the encoder, then cancels the
\* renderer context, then the stream context, all of the recorded generation,
\* and only then clears the four fields, in one step; until that step the
\* state is intact, and while the lock is held no other thread passes a point
\* where it reads or writes the state.
StopTearsDownInOrderUnderLock ==
    /\ [](\A t \in Threads :
            pc[t] \in StopPcs \ {"stop_enter"} =>
                /\ mu = t
                /\ StatePopulated
                /\ cancelFunc = ffmpegCmd /\ chromeCancel = ffmpegCmd
                /\ Len(stops[ffmpegCmd]) =
                      CASE pc[t] = "stop_kill" -> 0
                        [] pc[t] = "stop_chrome" -> 1
                        [] pc[t] = "stop_cancel" -> 2
                        [] pc[t] = "stop_clear" -> 3
                /\ \A i \in 1..Len(stops[ffmpegCmd]) :
                      stops[ffmpegCmd][i] = Did(t, StopOrder[i]))
    /\ [][mu # "free" =>
             /\ state' # state =>
                   (pc[mu] = "stop_clear" /\ StateEmpty' /\ mu' = "free")
             /\ \A u \in Threads \ {mu} :
                   pc[u] \in {"stop_enter", "sw_check", "ff_set", "ff_cleanup"} =>
                       pc'[u] = pc[u]]_vars

\* C15 witness: the status checker's stopStream has killed and cancelled the
\* running generation and is about to clear the state, while the loop, whose
\* Wait has returned, waits for the lock in its deferred cleanup.
StopBeforeClearWitness ==
    /\ pc["monitor"] = "stop_clear"
    /\ mu = "monitor"
    /\ Len(stops[gen]) = 3
    /\ ffState[gen] = "killed"
    /\ gen \in streamCancelled
    /\ StatePopulated
    /\ pc["loop"] = "ff_cleanup"

\* The lifecycle state of the pipeline: Idle while the loop is outside
\* streamWebsite; Starting from the entry of streamWebsite until
\* setStreamRunning (and through the deferred cancels of an attempt that
\* failed before it); Running while the loop is in cmd.Wait with the pipeline
\* recorded and no stopStream at work; Stopping from the start of a teardown
\* (a stopStream that found the pipeline, or Wait's return) until
\* streamWebsite has run its deferred cancels.
Phase ==
    IF pc["loop"] \in {"select", "loop_err", "backoff", "exited"} THEN "Idle"
    ELSE IF pc["loop"] \in StartPcs \cup StopPcs THEN "Starting"
    ELSE IF pc["loop"] = "sw_defers"
        THEN IF err \in {"nav", "spawn"} THEN "Starting" ELSE "Stopping"
    ELSE IF pc["loop"] = "ff_wait" /\ isRunning /\ mu = "free" THEN "Running"
    ELSE "Stopping"

\* C16: every step leaves the lifecycle state as it is or takes one of the
\* edges Idle->Starting, Starting->Running, Starting->Idle, Running->Stopping,
\* Stopping->Idle.
LifecycleTransitions ==
    [][\/ Phase' = Phase
       \/ <<Phase, Phase'>> \in
             {<<"Idle", "Starting">>, <<"Starting", "Running">>,
              <<"Starting", "Idle">>, <<"Running", "Stopping">>,
              <<"Stopping", "Idle">>}]_vars

\* C16 witness: generation 1 ran and was torn down by a Restart (Idle,
\* Starting, Running, Stopping, Idle), and generation 2 is now running.
SecondLifecycleWitness ==
    /\ Phase = "Running"
    /\ gen = 2
    /\ Len(stops[1]) = 3
    /\ stops[1][1].by = "monitor"
    /\ 1 \in chromeCancelled
    /\ pc["monitor"] = "mon_idle"

\* C17: when streamWebsite has returned a navigation or spawn error, the
\* state is empty, no browser is alive (that of the failed attempt has been
\* closed and its contexts cancelled), the attempt has no encoder process and
\* no encoder is alive.
FailedStartLeavesNothing ==
    (pc["loop"] = "loop_err" /\ err \in {"nav", "spawn"}) =>
        /\ StateEmpty
        /\ chrome = {}
        /\ gen \in chromeCancelled /\ gen \in streamCancelled
        /\ ffState[gen] = "none"
        /\ AliveFf = {}

\* C17 witness: the browser of generation 2 was started and the page loaded,
\* the encoder could not be spawned although nothing was cancelled, and
\* streamWebsite has returned the error.
SpawnFailedWitness ==
    /\ pc["loop"] = "loop_err"
    /\ err = "spawn"
    /\ gen = 2
    /\ ~rootDone
    /\ stops[2] = << >>
    /\ ffState[1] = "failed"

\* C18: (under FairSpec) the lock is held only by a thread inside the
\* teardown of stopStream, so never by the loop while it waits for the
\* browser, the page, the settle delay, the encoder's exit or the backoff;
\* and every stopStream that has been called returns, and the loop's
\* isStreamRunning test is passed, unless the process ends first.
StopCallsComplete ==
    /\ [](\A t \in Threads : mu = t => pc[t] \in StopPcs \ {"stop_enter"})
    /\ [](pc["loop"] \in {"sw_settle", "sw_launch", "sw_nav", "ff_wait", "backoff"}
             => mu # "loop")
    /\ \A t \in Threads :
          (pc[t] \in StopPcs) ~> (pc[t] \notin StopPcs \/ ~ProcessLive)
    /\ (pc["loop"] = "sw_check") ~> (pc["loop"] # "sw_check" \/ ~ProcessLive)

\* C18 witness: RestartStream found the pipeline, tore it down and returned
\* while the loop is still inside cmd.Wait for that generation.
StopReturnedDuringWaitWitness ==
    /\ pc["monitor"] = "mon_ret"
    /\ obs["monitor"].ran
    /\ obs["monitor"].gen = gen
    /\ mu = "free"
    /\ pc["loop"] = "ff_wait"
    /\ ffState[gen] = "killed"

StatusCheckFailureNeverFatal ==
    /\ ~crashed
    /\ pc["loop"] = "exited" => rootDone

\* C21: (under ClientSpec) initializeClient runs at most once, and only as a
\* step of a goroutine that is inside GetClient's clientOnce.Do, so not before
\* the first call; all calls that return, from whichever goroutine, return the
\* one value of the package's client variable, which is a client unless the
\* initialization panicked.
ClientInitializedOnce ==
    /\ [](/\ once.inits <= 1
          /\ (\A c \in Callers : caller[c].pc = "idle") =>
                (once.inits = 0 /\ once.client = 0 /\ ~once.done)
          /\ Cardinality(UNION {caller[c].rets : c \in Callers}) <= 1
          /\ \A c \in Callers : \A r \in caller[c].rets :
                r = once.client /\ (r = 0 => once.panicking))
    /\ [][once.inits' # once.inits =>
             \E c \in Callers : caller[c].pc = "init" /\ caller'[c].pc # "init"]_vars

\* C21 witness: both goroutines have been returned the client of the single
\* initialization, and one of them is calling again.
SameClientWitness ==
    /\ once.inits = 1
    /\ caller[1].rets = {1}
    /\ caller[2].rets = {1}
    /\ caller[1].pc = "do"
    /\ caller[2].pc = "returned"

\* C22: (under ClientSpec) for every environment and token outcome,
\* initializeClient returns an error and no client when TWITCH_CLIENT_ID or
\* TWITCH_CLIENT_SECRET is empty, and it returns a client exactly when it
\* returns no error, which needs both to be set; accordingly, once GetClient
\* has run it, a client is stored only if both are set, and with one of them
\* empty nothing is stored and GetClient has panicked.
InitializeClientNeedsCredentials ==
    LET r == initializeClient(env, tokenGranted)
        missing == env.TWITCH_CLIENT_ID = "" \/ env.TWITCH_CLIENT_SECRET = ""
    IN  /\ missing => (~r.client /\ r.err # "nil")
        /\ r.client <=> (r.err = "nil")
        /\ r.client => ~missing
        /\ once.client # 0 => (~missing /\ ~once.panicking)
        /\ (once.inits > 0 /\ missing) => (once.client = 0 /\ once.panicking)

\* C22 witness: the client ID is set, the secret is not, and initializeClient
\* has been run: no client is stored.
MissingSecretWitness ==
    /\ env.TWITCH_CLIENT_ID = "id"
    /\ env.TWITCH_CLIENT_SECRET = ""
    /\ tokenGranted
    /\ once.inits = 1
    /\ once.client = 0

\* C23: as long as no setStreamRunning has happened (no encoder has been
\* spawned, or the first one spawned is yet to be recorded), isRunning is
\* false and the three handles are nil; in particular at process start.
EmptyBeforeFirstStart ==
    (\A g \in Gens : ffState[g] = "none" \/ (g = gen /\ pc["loop"] = "ff_set")) =>
        StateEmpty

\* C23 witness: the first Start failed, a Restart found nothing to stop, and
\* the second Start has spawned its encoder and is about to record it.
FirstRecordPendingWitness ==
    /\ gen = 2
    /\ ffState[1] = "none"
    /\ ffState[2] = "alive"
    /\ pc["loop"] = "ff_set"
    /\ pc["monitor"] = "mon_ret"
    /\ ~obs["monitor"].ran
    /\ StateEmpty

\* C24: (under SpecStartWhileRunning) the isStreamRunning call of
\* streamWebsite is made with the lock free, returns the value isRunning has
\* at that moment (true: the caller goes on to stopStream; false: it goes on
\* to create the contexts) and changes no field of the state nor the lock.
IsRunningReadsFlagOnly ==
    [][(pc["loop"] = "sw_check" /\ pc'["loop"] # "sw_check") =>
          /\ mu = "free" /\ mu' = "free"
          /\ state' = state
          /\ (pc'["loop"] = "stop_enter") <=> isRunning
          /\ (pc'["loop"] = "sw_ctx") <=> ~isRunning
          /\ isRunning <=> StatePopulated]_vars

\* C24 witness: isStreamRunning has returned true for the recorded pipeline
\* of generation 1, which is left as it was.
IsRunningTrueWitness ==
    /\ pc["loop"] = "stop_enter"
    /\ obs["loop"] = NoObs
    /\ isRunning
    /\ ffmpegCmd = 1
    /\ cancelFunc = 1
    /\ chromeCancel = 1
    /\ mu = "free"

FramerateNormalised ==
    config.loaded =>
        IF env.FRAMERATE \in {<<"3", "0">>, <<"6", "0">>}
          THEN config.config.Framerate = env.FRAMERATE
          ELSE config.config.Framerate = <<"3", "0">>

\* C26 witness: $FRAMERATE is +60, which reads as the number 60 but is not
\* the string 60, and loadConfig has replaced it by 30.
OtherFramerateWitness ==
    /\ config.loaded
    /\ env.FRAMERATE = <<"+", "6", "0">>
    /\ Atoi(env.FRAMERATE).num = 60
    /\ config.config.Framerate = <<"3", "0">>

HasOption(flag, v) ==
    \E i \in 1..(Len(ffmpeg.args) - 1) :
        ffmpeg.args[i] = Lit(flag) /\ ffmpeg.args[i + 1] = Str(v)

\* C28: once the command is built for a configuration with resolution 720p,
\* 1080p or 2k and framerate 30 or 60, the video bitrate is 3000k/4000k,
\* 4500k/6000k or 6000k/8500k (30/60), the buffer size is 6000k/8000k,
\* 9000k/12000k or 12000k/17000k, twice the video bitrate, the audio bitrate
\* is 160k, and these are the values of -maxrate, -bufsize and -b:a.
BitrateTable ==
    LET r == config.config.Resolution
        f == config.config.Framerate
        Row(video, buffer) ==
            /\ ffmpeg.videoBitrate = video
            /\ ffmpeg.bufferSize = buffer
            /\ ffmpeg.audioBitrate = <<"1", "6", "0", "k">>
            /\ HasOption("-maxrate", video)
            /\ HasOption("-bufsize", buffer)
            /\ HasOption("-b:a", <<"1", "6", "0", "k">>)
    IN  ffmpeg.built =>
          /\ (r = <<"7", "2", "0", "p">> /\ f = <<"3", "0">>) => Row(<<"3", "0", "0", "0", "k">>, <<"6", "0", "0", "0", "k">>)
          /\ (r = <<"7", "2", "0", "p">> /\ f = <<"6", "0">>) => Row(<<"4", "0", "0", "0", "k">>, <<"8", "0", "0", "0", "k">>)
          /\ (r = <<"1", "0", "8", "0", "p">> /\ f = <<"3", "0">>) => Row(<<"4", "5", "0", "0", "k">>, <<"9", "0", "0", "0", "k">>)
          /\ (r = <<"1", "0", "8", "0", "p">> /\ f = <<"6", "0">>) => Row(<<"6", "0", "0", "0", "k">>, <<"1", "2", "0", "0", "0", "k">>)
          /\ (r = <<"2", "k">> /\ f = <<"3", "0">>) => Row(<<"6", "0", "0", "0", "k">>, <<"1", "2", "0", "0", "0", "k">>)
          /\ (r = <<"2", "k">> /\ f = <<"6", "0">>) => Row(<<"8", "5", "0", "0", "k">>, <<"1", "7", "0", "0", "0", "k">>)

\* C28 witness: the command is built for 1080p at 60: 6000k, 12000k, 160k.
Bitrate1080p60Witness ==
    /\ ffmpeg.built
    /\ config.config.Resolution = <<"1", "0", "8", "0", "p">>
    /\ config.config.Framerate = <<"6", "0">>
    /\ ffmpeg.videoBitrate = <<"6", "0", "0", "0", "k">>
    /\ ffmpeg.bufferSize = <<"1", "2", "0", "0", "0", "k">>
    /\ ffmpeg.audioBitrate = <<"1", "6", "0", "k">>

\* C29: once the command is built, the keyframe interval (the value of -g)
\* is 60 for framerate 30 and 120 for framerate 60, and the framerate is one
\* of the two.
KeyframeIntervalTwiceFramerate ==
    ffmpeg.built =>
        /\ config.config.Framerate \in {<<"3", "0">>, <<"6", "0">>}
        /\ config.config.Framerate = <<"3", "0">> =>
              (ffmpeg.keyframeInterval = <<"6", "0">> /\ HasOption("-g", <<"6", "0">>))
        /\ config.config.Framerate = <<"6", "0">> =>
              (ffmpeg.keyframeInterval = <<"1", "2", "0">> /\ HasOption("-g", <<"1", "2", "0">>))

\* C29 witness: the command is built for $FRAMERATE 60 with -g 120.
Keyframe120Witness ==
    /\ ffmpeg.built
    /\ env.FRAMERATE = <<"6", "0">>
    /\ HasOption("-framerate", <<"6", "0">>)
    /\ HasOption("-g", <<"1", "2", "0">>)

\* C30 as claimed: the command that is built binds one video stream of the
\* first input and one audio stream of the second explicitly: its arguments
\* contain -map 0:v and -map 1:a.
CommandMapsBothStreams ==
    ffmpeg.built =>
        /\ \E i \in 1..(Len(ffmpeg.args) - 1) :
              ffmpeg.args[i] = Lit("-map") /\ ffmpeg.args[i + 1] = Lit("0:v")
        /\ \E i \in 1..(Len(ffmpeg.args) - 1) :
              ffmpeg.args[i] = Lit("-map") /\ ffmpeg.args[i + 1] = Lit("1:a")

\* C31: the target page URL of the loaded configuration is the value of
\* WEBPAGE_URL when that variable is set and non-empty, and
\* https://google.com otherwise.
TargetUrlFromWebpageUrl ==
    config.loaded =>
        config.config.WebsiteURL =
            IF "WEBPAGE_URL" \notin unset /\ env.WEBPAGE_URL # << >>
              THEN env.WEBPAGE_URL
              ELSE <<"h", "t", "t", "p", "s", ":", "/", "/", "g", "o", "o", "g", "l", "e", ".", "c", "o", "m">>

\* C32: GetEnvOrDefault(key, d) returns the value of key when it is set and
\* non-empty, and d when the variable is unset or set to the empty string
\* (as loadConfig applies it to RTMP_URL and WEBSITE_URL).
GetEnvOrDefaultContract ==
    config.loaded =>
        /\ config.config.RTMPURL =
              IF "RTMP_URL" \notin unset /\ env.RTMP_URL # << >>
                THEN env.RTMP_URL
                ELSE DefaultRTMPURL
        /\ config.config.WebsiteURL =
              IF "WEBSITE_URL" \notin unset /\ env.WEBSITE_URL # << >>
                THEN env.WEBSITE_URL
                ELSE DefaultWebsiteURL

\* RTMP_URL is set to the empty string and the default was loaded, while
\* WEBSITE_URL is set and was loaded.
SetButEmptyWitness ==
    /\ config.loaded
    /\ "RTMP_URL" \notin unset
    /\ env.RTMP_URL = << >>
    /\ config.config.RTMPURL = DefaultRTMPURL
    /\ env.WEBSITE_URL # << >>
    /\ config.config.WebsiteURL = env.WEBSITE_URL

\* C33: every answer of the health endpoint has status 200 and message "OK",
\* whatever the state of the pipeline: also while none is running or a start
\* is failing; and the endpoint answers in every state in which the server
\* is up.
HealthAlwaysOk ==
    /\ [](health.answered => health.status = 200 /\ health.message = "OK")
    /\ []((ProcessLive /\ pc["signal"] # "sig_done") => ENABLED HealthRequest)
    /\ [][health' # health =>
            /\ health' = [answered |-> TRUE, status |-> 200, message |-> "OK"]
            /\ UNCHANGED <<state, procs, ctxs, pc>>]_vars

\* The endpoint has answered although no pipeline has run so far: the only
\* start has just failed to spawn the encoder.
HealthWhileStartFailsWitness ==
    /\ health.answered
    /\ health.status = 200
    /\ gen = 1
    /\ ffState[1] = "none"
    /\ err = "spawn"
    /\ pc["loop"] = "loop_err"
    /\ ~isRunning

\* C34: each time the run loop invokes streamWebsite, isRunning is false and
\* the handles are empty, so the loop never takes the stop-before-start
\* branch: it neither calls stopStream nor waits the settle delay.
StartFindsStateEmpty ==
    /\ [](pc["loop"] \in {"select", "sw_check", "sw_ctx"} => StateEmpty)
    /\ [](pc["loop"] \notin StopPcs \cup {"sw_settle"})
    /\ [][(pc["loop"] = "sw_check" /\ pc'["loop"] # "sw_check") =>
             (~isRunning /\ pc'["loop"] = "sw_ctx")]_vars

\* The loop has passed the test of a second streamWebsite, after the first
\* pipeline ran and was torn down by a restart.
StartAfterTeardownWitness ==
    /\ pc["loop"] = "sw_ctx"
    /\ gen = 1
    /\ StopCount(1, "kill") = 1
    /\ StopCount(1, "cancel") = 1
    /\ ffState[1] = "killed"
    /\ StateEmpty

\* C35 as claimed: in every interleaving, when the encoder has ended because
\* stopStream killed it, startFFmpegStream returns nil, and the loop goes on
\* to the next streamWebsite without the backoff.
KilledByStopIsExpected ==
    [][/\ (/\ pc["loop"] = "ff_ctxcheck"
            /\ pc'["loop"] = "ff_cleanup"
            /\ ffState[gen] = "killed"
            /\ StopCount(gen, "kill") = 1) => err' = "nil"
       /\ (/\ pc["loop"] = "loop_err"
            /\ pc'["loop"] # "loop_err"
            /\ ffState[gen] = "killed"
            /\ StopCount(gen, "kill") = 1
            /\ ~rootDone) => pc'["loop"] = "select"]_vars

\* C36: a stopStream of the status checker or the signal handler that runs
\* after the loop has begun streamWebsite and before setStreamRunning (the
\* browser launched or the encoder spawned or not) tears nothing down: it
\* returns at its isRunning test, the generation being started has no
\* teardown recorded, and the loop goes on from where it is.
StopDuringStartTearsNothingDown ==
    /\ [](pc["loop"] \in {"sw_launch", "sw_nav", "ff_start", "ff_set"} =>
            stops[gen] = << >>)
    /\ [][\A t \in {"monitor", "signal"} :
            (pc[t] = "stop_enter" /\ pc'[t] # "stop_enter" /\ pc["loop"] \in StartPcs) =>
                /\ pc'[t] = RetOf(t)
                /\ pc'["loop"] = pc["loop"]
                /\ UNCHANGED <<state, mu, procs, ctxs, stops>>]_vars

\* A restart ran while generation 1 was being started and found nothing to
\* stop; generation 1 has since been recorded and streams, never torn down.
StartSurvivedRestartWitness ==
    /\ obs["monitor"] = [gen |-> 1, phase |-> "starting", ran |-> FALSE]
    /\ pc["monitor"] = "mon_ret"
    /\ pc["loop"] = "ff_wait"
    /\ gen = 1
    /\ StatePopulated
    /\ ffState[1] = "alive"
    /\ stops[1] = << >>

\* C37 as claimed: between two successive streamWebsite calls of the loop
\* there is a backoff, or the previous generation was stopped by a
\* stopStream or the root context was cancelled: the loop never goes from
\* the result of a generation straight to the next call after an encoder exit
\* nobody requested, an exit with status 0 included.
BackoffOrStopBetweenStarts ==
    [][(pc["loop"] = "loop_err" /\ pc'["loop"] = "select") =>
          (stops[gen] # << >> \/ rootDone)]_vars

\* C38: when stopStream calls of the status checker and the signal handler
\* overlap on a running pipeline, one of them performs the teardown and the
\* other finds nothing to do: at most one thread is past the isRunning test
\* at a time, a generation is torn down by one thread only, which kills its
\* encoder at most once and calls each of its cancel handles at most once.
OneTeardownPerGeneration ==
    /\ Cardinality({t \in Threads : pc[t] \in StopPcs \ {"stop_enter"}}) <= 1
    /\ \A g \in Gens :
          /\ \A i, j \in 1..Len(stops[g]) : stops[g][i].by = stops[g][j].by
          /\ StopCount(g, "kill") <= 1
          /\ StopCount(g, "chrome") <= 1
          /\ StopCount(g, "cancel") <= 1
    /\ (obs["monitor"].ran /\ obs["signal"].ran) =>
          obs["monitor"].gen # obs["signal"].gen

\* The signal handler's Stop and the status checker's Restart overlap on the
\* running generation 1: the Restart has killed and cancelled and still holds
\* the lock, for which the Stop waits.
OverlappingStopsWitness ==
    /\ pc["monitor"] = "stop_clear"
    /\ pc["signal"] = "stop_enter"
    /\ mu = "monitor"
    /\ isRunning
    /\ stops[1] = <<Did("monitor", "kill"), Did("monitor", "chrome"), Did("monitor", "cancel")>>
    /\ ffState[1] = "killed"

\* C39: (under SpecStartWhileRunning) when stopStream cannot kill the
\* encoder, because the process has already exited or because the recorded
\* command has no process, it goes on all the same: it calls chromeCancel
\* and cancelFunc, clears the state and returns, and nothing is reported to
\* the caller (the loop's err is untouched, the process does not panic).
StopCompletesWithoutKill ==
    [][\A t \in Threads :
        /\ (/\ pc[t] = "stop_kill"
            /\ pc'[t] # "stop_kill"
            /\ ffmpegCmd # NoGen
            /\ ffState[ffmpegCmd] # "alive") =>
                /\ pc'[t] = "stop_chrome"
                /\ ffState' = ffState
                /\ err' = err
        /\ (/\ pc[t] = "stop_clear"
            /\ pc'[t] # "stop_clear"
            /\ ffmpegCmd # NoGen
            /\ ffState[ffmpegCmd] \in {"none", "failed", "exited0"}) =>
                /\ \E i \in 1..Len(stops[chromeCancel]) :
                      stops[chromeCancel][i] = Did(t, "chrome")
                /\ \E i \in 1..Len(stops[cancelFunc]) :
                      stops[cancelFunc][i] = Did(t, "cancel")
                /\ chromeCancel \in chromeCancelled
                /\ cancelFunc \in streamCancelled
                /\ StateEmpty'
                /\ pc'[t] = RetOf(t)
                /\ mu' = "free"
                /\ err' = err
                /\ ~crashed']_vars

\* The shutdown Stop has returned from a state whose recorded command had no
\* process: nothing was killed, both contexts are cancelled, the state is empty.
StoppedWithoutProcessWitness ==
    /\ pc["signal"] = "sig_http"
    /\ obs["signal"] = [gen |-> 1, phase |-> "idle", ran |-> TRUE]
    /\ ffState[1] = "none"
    /\ stops[1] = <<Did("signal", "chrome"), Did("signal", "cancel")>>
    /\ 1 \in chromeCancelled
    /\ 1 \in streamCancelled
    /\ StateEmpty

\* C40 as claimed: for an argument "<n>k" with n a decimal integer the
\* result is n (its decimal form is that of n, without sign "+" and leading
\* zeros), and for an argument whose part before the trailing k is not an
\* integer the result is 3000.
ExtractNumberForEveryInteger ==
    (number.returned /\ bitrateArg # << >> /\ bitrateArg[Len(bitrateArg)] = "k") =>
        LET part == SubSeq(bitrateArg, 1, Len(bitrateArg) - 1)
            signed == part # << >> /\ part[1] \in {"+", "-"}
            body == IF signed THEN Tail(part) ELSE part
            isInteger == body # << >> /\ \A i \in 1..Len(body) : IsDigit(body[i])
            magnitude == IF StripZeros(body) = << >> THEN <<"0">> ELSE StripZeros(body)
            decimal == IF signed /\ part[1] = "-" /\ magnitude # <<"0">>
                         THEN <<"-">> \o magnitude ELSE magnitude
        IN  IF isInteger THEN FormatInt(number.n) = decimal
            ELSE number.n = 3000

\* C40: for an argument "<n>k" with n a decimal integer that fits an int
\* (64 bits) the result is n, and for an argument whose part before the
\* trailing k is not an integer, or is an integer that does not fit an int,
\* the result is 3000.
ExtractNumberForEveryInt ==
    (number.returned /\ bitrateArg # << >> /\ bitrateArg[Len(bitrateArg)] = "k") =>
        LET part == SubSeq(bitrateArg, 1, Len(bitrateArg) - 1)
            signed == part # << >> /\ part[1] \in {"+", "-"}
            negative == signed /\ part[1] = "-"
            body == IF signed THEN Tail(part) ELSE part
            isInteger == body # << >> /\ \A i \in 1..Len(body) : IsDigit(body[i])
            magnitude == IF StripZeros(body) = << >> THEN <<"0">> ELSE StripZeros(body)
            decimal == IF negative /\ magnitude # <<"0">>
                         THEN <<"-">> \o magnitude ELSE magnitude
            fits == \/ Len(magnitude) < 19
                    \/ /\ Len(magnitude) = 19
                       /\ ~DigitsGreater(magnitude,
                                         IF negative THEN <<"9", "2", "2", "3", "3", "7", "2", "0", "3", "6", "8", "5", "4", "7", "7", "5", "8", "0", "8">>
                                         ELSE <<"9", "2", "2", "3", "3", "7", "2", "0", "3", "6", "8", "5", "4", "7", "7", "5", "8", "0", "7">>)
        IN  IF isInteger /\ fits THEN FormatInt(number.n) = decimal
            ELSE number.n = 3000

\* The argument is an integer beyond the largest int followed by k, and the
\* fallback was returned.
BitrateBeyondIntWitness ==
    /\ number.returned
    /\ bitrateArg = <<"9", "2", "2", "3", "3", "7", "2", "0", "3", "6", "8", "5", "4", "7", "7", "5", "8", "0", "8", "k">>
    /\ number.n = 3000

====
